---- MODULE Spec2Model ----
(***************************************************************************)
(* State-machine model of BNCASmartScraper (index.js of                    *)
(* @monostate/node-scraper): the scrape cascade (PDF gate, direct fetch,   *)
(* Lightpanda, Puppeteer), the per-instance statistics counters, the       *)
(* shared browser session, healthCheck and cleanup, and the external       *)
(* processes the class runs: the Lightpanda binary and headless Chrome     *)
(* for screenshot and quickshot, with their timers and signals.            *)
(*                                                                         *)
(* One scraper instance is modelled.  A call advances from one await to    *)
(* the next in one step, which is the granularity at which node's event    *)
(* loop interleaves asynchronous functions.                                *)
(***************************************************************************)
EXTENDS Integers, Sequences, FiniteSets, TLC

(***************************************************************************)
(* Bounds of the model.                                                    *)
(***************************************************************************)
\* Total number of scrape / healthCheck calls started on the instance.
MaxStarts == 2

\* Call slots.  The caller awaits each call before it starts the next one, as
\* test-all-features.mjs does, so one slot is in use at a time.
Calls == {"c1"}

\* Slots of calls that overlap: Promise.all([scrape(a), scrape(b)]).
Slots == {"c1", "c2"}

(***************************************************************************)
(* Program constants.                                                      *)
(***************************************************************************)
\* const hasMinimalContent = textContent.length < 200
MinimalContentThreshold == 200

Methods == {"directFetch", "lightpanda", "puppeteer", "pdf"}

\* new BNCASmartScraper(): timeout: options.timeout || 10000
DefaultTimeout == 10000

\* tryLightpanda: spawn(..., { timeout: config.timeout + 1000 })
LightpandaBuffer == 1000

\* the inner setTimeout(..., 1000) between chrome.kill('SIGTERM') and
\* chrome.kill('SIGKILL')
GraceMs == 1000

\* chrome.on('exit'): await new Promise(r => setTimeout(r, 500))
ReadDelayMs == 500

\* takeScreenshotOptimized: retryCount === 0 ? 5000 : 8000
virtualTimeBudget(retryCount) == IF retryCount = 0 THEN 5000 ELSE 8000

\* takeScreenshotOptimized: retryCount === 0 ? 8000 : 12000
processTimeout(retryCount) == IF retryCount = 0 THEN 8000 ELSE 12000

\* the functions that run an external process
Kinds == {"lightpanda", "screenshot", "quickshot"}

\* the values retryCount takes: takeScreenshotOptimized calls itself with 1
RetryCounts == {0, 1}

(***************************************************************************)
(* Inputs: URLs and markup, described by the features the code tests.      *)
(***************************************************************************)
\* A URL is described by what the code's string tests say about it:
\*   isString   - typeof url === 'string'; scrape() without a url has undefined
\*   endsPdf    - url.toLowerCase().endsWith('.pdf')
\*   pdfQuery   - url.toLowerCase().includes('.pdf?')
\*   pdfDir     - url.toLowerCase().includes('/pdf/')
\*   simpleSite - url.includes(site) for a site of simpleSites
\*   knownSpa   - a pattern of domainIndicators matches url
Url(name, isString, endsPdf, pdfQuery, pdfDir, simpleSite, knownSpa) ==
  [name |-> name, isString |-> isString, endsPdf |-> endsPdf,
   pdfQuery |-> pdfQuery, pdfDir |-> pdfDir, simpleSite |-> simpleSite,
   knownSpa |-> knownSpa]

ExampleCom == Url("https://example.com", TRUE, FALSE, FALSE, FALSE, TRUE, FALSE)

Urls ==
  { ExampleCom,
    Url("https://shop.test/app", TRUE, FALSE, FALSE, FALSE, FALSE, FALSE),
    Url("https://twitter.com/x", TRUE, FALSE, FALSE, FALSE, FALSE, TRUE),
    Url("https://files.test/doc.pdf", TRUE, TRUE, FALSE, FALSE, FALSE, FALSE),
    Url("https://files.test/pdf/42", TRUE, FALSE, FALSE, TRUE, FALSE, FALSE),
    Url("undefined", FALSE, FALSE, FALSE, FALSE, FALSE, FALSE) }

\* Markup is described by the patterns of detectBrowserRequirement that match
\* it and by the length of its visible text.
Html(name, spa, protection, textLen) ==
  [name |-> name, spa |-> spa, protection |-> protection, textLen |-> textLen]

Htmls ==
  { Html("static-short", {}, {}, 120),
    Html("static-long", {}, {}, 900),
    Html("next-shell", {"window.__NEXT_DATA__"}, {}, 199),
    Html("next-ssr", {"window.__NEXT_DATA__"}, {}, 200),
    Html("nuxt-shell", {"window.__NUXT__"}, {}, 0),
    Html("cf-challenge", {}, {"cloudflare.*challenge"}, 80) }

(***************************************************************************)
(* Pure functions of the scraper.                                          *)
(***************************************************************************)
\* scrape: const isPdfUrl = ...
isPdfUrl(url) == url.endsPdf \/ url.pdfQuery \/ url.pdfDir

\* tryPDFParse: url.toLowerCase().includes('.pdf')
includesDotPdf(url) == url.endsPdf \/ url.pdfQuery

\* a classifier for which little visible text is enough to ask for a browser
detectBrowserRequirementMinimalAlone(html, url) ==
  IF url.simpleSite
    THEN FALSE
    ELSE LET hasProtection     == html.protection # {}
             isKnownSpa        == url.knownSpa
             hasMinimalContent == html.textLen < MinimalContentThreshold
         IN  hasProtection \/ isKnownSpa \/ hasMinimalContent

\* a classifier that lets the protection markers win over the allowlist
detectBrowserRequirementProtectionFirst(html, url) ==
  LET hasSpaIndicators  == html.spa # {}
      hasProtection     == html.protection # {}
      isKnownSpa        == url.knownSpa
      hasMinimalContent == html.textLen < MinimalContentThreshold
      isLikelySpa       == hasMinimalContent /\ hasSpaIndicators
  IN  hasProtection \/ (~url.simpleSite /\ (isKnownSpa \/ isLikelySpa))

\* detectBrowserRequirement(html, url)
detectBrowserRequirement(html, url) ==
  IF url.simpleSite
    THEN FALSE
    ELSE LET hasSpaIndicators  == html.spa # {}
             hasProtection     == html.protection # {}
             isKnownSpa        == url.knownSpa
             hasMinimalContent == html.textLen < MinimalContentThreshold
             isLikelySpa       == hasMinimalContent /\ hasSpaIndicators
         IN  hasProtection \/ isKnownSpa \/ isLikelySpa

(***************************************************************************)
(* URLs as text.  A URL is its scheme, the labels of its host and the      *)
(* segments of its path; a string occurs in the URL when it is one of      *)
(* these pieces.                                                           *)
(***************************************************************************)
\* detectBrowserRequirement: const simpleSites = [...]
simpleSites ==
  {"example.com", "httpbin.org", "wikipedia.org", "github.io", "netlify.app",
   "vercel.app"}

\* detectBrowserRequirement: const domainIndicators = [/instagram\.com/i, ...]
domainIndicators ==
  {"instagram.com", "twitter.com", "facebook.com", "linkedin.com",
   "maps.google", "gmail.com", "youtube.com"}

RawUrl(host, path) == [scheme |-> "https://", host |-> host, path |-> path]

Text(raw) == <<raw.scheme>> \o raw.host \o raw.path

\* String.prototype.includes: case-sensitive
includes(raw, piece) == \E i \in 1..Len(Text(raw)) : Text(raw)[i] = piece

\* what the i flag of a regular expression makes of the pieces in use
Lower(piece) ==
  CASE piece = "EXAMPLE.COM" -> "example.com"
    [] piece = "Twitter.com" -> "twitter.com"
    [] OTHER                 -> piece

\* pattern.test(url) for a pattern of domainIndicators
test(pattern, raw) ==
  \E i \in 1..Len(Text(raw)) : Lower(Text(raw)[i]) = pattern

\* what the code's string tests say about a URL given as text
Features(raw) ==
  Url("raw", TRUE,
      Len(raw.path) > 0 /\ Lower(raw.path[Len(raw.path)]) = ".pdf",
      includes(raw, ".pdf?"), includes(raw, "/pdf/"),
      \E site \in simpleSites : includes(raw, site),
      \E pattern \in domainIndicators : test(pattern, raw))

Hosts ==
  { <<"example.com">>, <<"httpbin.org">>, <<"en.", "wikipedia.org">>,
    <<"user.", "github.io">>, <<"site.", "netlify.app">>,
    <<"app.", "vercel.app">>, <<"twitter.com", ".", "example.com">>,
    <<"maps.google", ".", "github.io">>, <<"EXAMPLE.COM">>,
    <<"shop.test">>, <<"twitter.com">>, <<"Twitter.com">> }

Paths == { <<>>, <<"/", "twitter.com">>, <<"/", "example.com">> }

RawUrls == { RawUrl(h, p) : h \in Hosts, p \in Paths }

Markups ==
  Htmls \cup
  { Html("cf-next-shell", {"window.__NEXT_DATA__"}, {"cloudflare.*challenge"}, 0),
    Html("js-required", {}, {"please enable javascript"}, 900) }

NoInput == [fn |-> "none", html |-> Html("none", {}, {}, 0),
            url |-> RawUrl(<<>>, <<>>)]

(***************************************************************************)
(* Result records.  A field the code leaves out is "undefined" (strings)   *)
(* or FALSE (the flags the code only tests for truthiness).                *)
(***************************************************************************)
Undefined == "undefined"

\* the object literals the stages return; a number the literal leaves out
\* is -1.  htmlLen and contentLen are the lengths of the html and content
\* strings the literal carries.
StageResult(success, error, isPdf, needsBrowser, content, html) ==
  [threw |-> FALSE, success |-> success, error |-> error, isPdf |-> isPdf,
   needsBrowser |-> needsBrowser, content |-> content, html |-> html,
   size |-> -1, htmlLen |-> -1, contentLen |-> -1]

\* the size, html and content members of a success literal
Sized(r, size, htmlLen, contentLen) ==
  [r EXCEPT !.size = size, !.htmlLen = htmlLen, !.contentLen = contentLen]

\* JSON.stringify(value, null, indent).length for an object with the given
\* number of members whose compact serialization has `chars` characters:
\* every member gets a line break, the indent and a space after the colon,
\* and the closing brace gets a line break
stringifyLength(value, indent) ==
  IF indent = 0 THEN value.chars
  ELSE value.chars + (indent + 2) * value.members + 1

\* html.length: the visible text and the tags around it
length(html) == html.textLen + 2 * Len("<body>") + 1

\* the object extractContentFromHTML serializes: seven members, content cut
\* to 2000 characters
Extracted(html) ==
  [members |-> 7,
   chars |-> (IF html.textLen < 2000 THEN html.textLen ELSE 2000) + 7 * Len("\"title\":\"\",")]

\* what the Lightpanda process wrote to stdout
LightpandaOutput == Html("rendered", {}, {}, 900)

\* the object page.evaluate returns: nine members
PageContent == [members |-> 9, chars |-> 9 * Len("\"title\":\"\",") + 300]

\* a downloaded PDF: its bytes and the twelve-member object built from it
PdfDocument == [bytes |-> 5000,
                content |-> [members |-> 12, chars |-> 12 * Len("\"title\":\"\",") + 700]]

Failure(error) == StageResult(FALSE, error, FALSE, FALSE, Undefined, FALSE)

\* a stage whose promise rejects with new Error(message)
Thrown(message) == [Failure(message) EXCEPT !.threw = TRUE]

NoResult == Failure(Undefined)

(***************************************************************************)
(* State.                                                                  *)
(***************************************************************************)
VARIABLES
  stats,           \* this.stats: method -> [attempts, successes]
  puppeteerLoaded, \* module-level `puppeteer` is not null
  lightpandaPath,  \* this.options.lightpandaPath and what statSync says of it
  browser,         \* this.browser: 0 is null, otherwise a browser id
  nextBrowser,     \* id of the next browser puppeteer.launch() creates
  alive,           \* browser processes that are running
  openPages,       \* browser id -> pages open in it
  frame,           \* call -> locals and position of the call
  returned,        \* call -> what the call's promise settled with
  started,         \* number of calls started so far
  runKind,         \* which process-running function is being executed
  atts,            \* retryCount -> locals of that invocation and its process
  invoked,         \* history: the invocations made, with their parameters
  clock,           \* milliseconds since the first invocation
  input,           \* arguments of the pure function being evaluated
  output           \* <<>> until it has returned, then <<value>>

\* the state of the process-running functions
runVars == <<runKind, atts, invoked, clock>>

\* the state of the scraper instance and its calls
scraperVars == <<stats, puppeteerLoaded, lightpandaPath, browser, nextBrowser,
                 alive, openPages, frame, returned, started>>

\* the evaluation of a pure function
fnVars == <<input, output>>

vars == <<stats, puppeteerLoaded, lightpandaPath, browser, nextBrowser,
          alive, openPages, frame, returned, started, runVars, fnVars>>

BrowserIds == 1..MaxStarts

LightpandaPaths == {"null", "missing", "notFile", "file"}

\* the value a settled call carries; kind is "none" while it is pending
Settled(kind, r, method, perfMethod, hasStats) ==
  [kind |-> kind, success |-> r.success, method |-> method,
   error |-> r.error, isPdf |-> r.isPdf, needsBrowser |-> r.needsBrowser,
   content |-> r.content, html |-> r.html,
   size |-> r.size, htmlLen |-> r.htmlLen, contentLen |-> r.contentLen,
   perfMethod |-> perfMethod, hasStats |-> hasStats]

Pending == Settled("none", NoResult, Undefined, Undefined, FALSE)

\* a return that leaves method at its initial value
ScrapeReturnUnknown(result, method) ==
  Settled("returned", result, "unknown", "unknown", TRUE)

\* scrape: return { ...result, method, performance: {totalTime, method},
\*                  stats: this.getStats() }
ScrapeReturn(result, method) == Settled("returned", result, method, method, TRUE)

\* a catch block that passes the error on to the caller
ScrapeCatchRethrows(message) ==
  Settled("thrown", Failure(message), Undefined, Undefined, FALSE)

\* scrape: catch (error) { return { success: false, method: 'error', ... } }
ScrapeCatch(message) ==
  Settled("returned", Failure(message), "error", Undefined, FALSE)

\* The locals of one invocation of a process-running function, the process it
\* spawned and its temporary file.  A timer that is not armed has deadline -1.
\*   proc          - "none", "running", "spawnFailed" or "exited"
\*   processExited - the flag the 'exit' handler sets
\*   errorSeen     - the 'error' event has been delivered
\*   killAt        - deadline of killTimeout (for Lightpanda: of spawn's timeout)
\*   graceAt       - deadline of the inner timer that sends SIGKILL
\*   readAt        - deadline of the delay before readFile
\*   file          - tempFile exists on disk;  wrote - it has existed
\*   unlinkTried   - fsPromises.unlink(tempFile) has been called
\*   stdout        - the process has written to stdout
\*   value         - what the invocation's promise settled with
\*   signals, spawnAt, exitAt - history: the kill() calls with their times,
\*                   the time of the spawn and the time the exit handler ran
NoAttempt ==
  [pc |-> "none", proc |-> "none", processExited |-> FALSE,
   errorSeen |-> FALSE, killAt |-> -1, graceAt |-> -1, readAt |-> -1,
   file |-> FALSE, wrote |-> FALSE, unlinkTried |-> FALSE, stdout |-> FALSE, value |-> "pending",
   budget |-> 0, timeout |-> 0, signals |-> <<>>, spawnAt |-> -1,
   exitAt |-> -1]

NoStats == [m \in Methods |-> [attempts |-> 0, successes |-> 0]]

\* The options argument of a call.  A path given for one call only is another
\* path than the instance's; "callFile" is such a path and names a regular
\* file.
NoOptions == [lightpandaPath |-> Undefined]

CallOptions == {NoOptions, [lightpandaPath |-> "callFile"]}

\* scrape: const config = { ...this.options, ...options }
config(options) ==
  [lightpandaPath |-> IF options.lightpandaPath # Undefined
                        THEN options.lightpandaPath ELSE lightpandaPath]

\* The locals of a call.  options is the options argument; statPath and
\* spawnPath are history, the paths tryLightpanda handed to statSync and to
\* spawn, timeoutCleared that tryDirectFetch has called clearTimeout on the
\* timer that aborts its request.  attempted, seen and base are history: the stages the
\* call entered, how each stage's awaits settled, and this.stats at the call.
\* inFlight holds the stages whose request, process or browser operation has
\* been issued and has not ended.
IdleFrame ==
  [pc |-> "idle", op |-> "none", url |-> ExampleCom, pdfFrom |-> "none",
   result |-> NoResult, method |-> "unknown", lastError |-> Undefined,
   attempted |-> <<>>, seen |-> <<>>, base |-> NoStats, br |-> 0,
   inFlight |-> {},
   options |-> NoOptions, statPath |-> Undefined, spawnPath |-> Undefined,
   atReturn |-> NoStats, timeoutCleared |-> FALSE,
   health |-> [directFetch |-> FALSE, lightpanda |-> FALSE, puppeteer |-> FALSE]]

\* an instance on which no call is running, its counters at counters
Instance(counters) ==
  /\ stats = counters
  /\ puppeteerLoaded \in BOOLEAN
  /\ lightpandaPath \in LightpandaPaths
  /\ browser = 0
  /\ nextBrowser = 1
  /\ alive = {}
  /\ openPages = [b \in BrowserIds |-> 0]
  /\ frame = [c \in Slots |-> IdleFrame]
  /\ returned = [c \in Slots |-> Pending]
  /\ started = 0
  /\ runKind = "none"
  /\ atts = [a \in RetryCounts |-> NoAttempt]
  /\ invoked = <<>>
  /\ clock = 0

\* a new instance; no call has been made on it
Idle == Instance(NoStats)

Init == Idle /\ input = NoInput /\ output = <<>>

(***************************************************************************)
(* The synchronous head of each stage: everything up to its first await.   *)
(* Each takes the caller's frame and the counters and gives both back.     *)
(***************************************************************************)
\* a stage that does not count its attempt
IncAttemptsSkipped(s, m) == s

IncAttempts(s, m) == [s EXCEPT ![m].attempts = @ + 1]

IncSuccesses(s, m) == [s EXCEPT ![m].successes = @ + 1]

\* tryPDFParse up to `await fetch(url, ...)`
BeginPDFParse(f, s, from) ==
  [f |-> [f EXCEPT !.pc = "pdf_fetch", !.pdfFrom = from,
                   !.attempted = Append(@, "pdf"),
                   !.inFlight = @ \cup {"pdf"}],
   s |-> IncAttempts(s, "pdf")]

\* tryDirectFetch up to `await fetch(url, ...)`
BeginDirectFetch(f, s) ==
  [f |-> [f EXCEPT !.pc = "df_fetch", !.attempted = Append(@, "directFetch"),
                   !.timeoutCleared = FALSE,
                   !.inFlight = @ \cup {"directFetch"}],
   s |-> IncAttempts(s, "directFetch")]

\* tryLightpanda counting the attempt only once the binary checks have passed
BeginLightpandaChecksFirst(f, s) ==
  LET g == [f EXCEPT !.attempted = Append(@, "lightpanda"),
                     !.statPath = IF lightpandaPath = "null" THEN Undefined
                                  ELSE lightpandaPath]
      fail(e) == [g EXCEPT !.pc = "ret_lp", !.result = Failure(e),
                           !.seen = Append(@, <<"lightpanda", lightpandaPath>>)]
  IN [f |-> CASE lightpandaPath = "null"    -> fail("Lightpanda binary not found")
              [] lightpandaPath = "missing" -> fail("Lightpanda binary not accessible")
              [] lightpandaPath = "notFile" -> fail("Lightpanda binary is not a file")
              [] OTHER                      -> [g EXCEPT !.pc = "lp_running",
                                                         !.spawnPath = lightpandaPath,
                                                         !.inFlight = @ \cup {"lightpanda"}],
      s |-> IF lightpandaPath = "file" THEN IncAttempts(s, "lightpanda") ELSE s]

\* tryLightpanda up to the spawn
BeginLightpanda(f, s) ==
  LET g == [f EXCEPT !.attempted = Append(@, "lightpanda"),
                     !.statPath = IF lightpandaPath = "null" THEN Undefined
                                  ELSE lightpandaPath]
      fail(e) == [g EXCEPT !.pc = "ret_lp", !.result = Failure(e),
                           !.seen = Append(@, <<"lightpanda", lightpandaPath>>)]
  IN [f |-> CASE lightpandaPath = "null"    -> fail("Lightpanda binary not found")
              [] lightpandaPath = "missing" -> fail("Lightpanda binary not accessible")
              [] lightpandaPath = "notFile" -> fail("Lightpanda binary is not a file")
              [] OTHER                      -> [g EXCEPT !.pc = "lp_running",
                                                         !.spawnPath = lightpandaPath,
                                                         !.inFlight = @ \cup {"lightpanda"}],
      s |-> IncAttempts(s, "lightpanda")]

\* tryPuppeteer up to `await puppeteer.launch()` or `await browser.newPage()`
BeginPuppeteer(f, s) ==
  LET g == [f EXCEPT !.attempted = Append(@, "puppeteer")]
  IN [f |-> IF ~puppeteerLoaded
              THEN [g EXCEPT !.pc = "ret_pp",
                             !.result = Thrown("Puppeteer is not available"),
                             !.seen = Append(@, <<"puppeteer", "unavailable">>)]
              ELSE IF browser = 0
                     THEN [g EXCEPT !.pc = "pp_launch",
                                    !.inFlight = @ \cup {"puppeteer"}]
                     ELSE [g EXCEPT !.pc = "pp_newPage", !.br = browser,
                                    !.inFlight = @ \cup {"puppeteer"}],
      s |-> IncAttempts(s, "puppeteer")]

\* a stage settling while its request or process is still running
StageEndsEarly(f, pc, o, r) ==
  [f EXCEPT !.pc = pc, !.result = r,
            !.seen = Append(@, <<f.attempted[Len(f.attempted)], o>>)]

\* a stage's promise settles with r after its await settled as o: the stage
\* settles from the handler of the operation's last event, so the operation
\* has ended
StageEnds(f, pc, o, r) ==
  [f EXCEPT !.pc = pc, !.result = r,
            !.seen = Append(@, <<f.attempted[Len(f.attempted)], o>>),
            !.inFlight = @ \ {f.attempted[Len(f.attempted)]}]

Set(c, step) ==
  /\ frame' = [frame EXCEPT ![c] = step.f]
  /\ stats' = step.s

\* the call's promise settles with value v; atReturn is history, the
\* counters as they stood then
Settle(c, f, v) ==
  /\ frame' = [frame EXCEPT ![c] = [f EXCEPT !.pc = "done", !.result = NoResult,
                                             !.atReturn = stats]]
  /\ returned' = [returned EXCEPT ![c] = v]

Free(c) == frame[c].pc \in {"idle", "done"}

(***************************************************************************)
(* scrape(url, options)                                                    *)
(***************************************************************************)
\* scrape is called: the code up to the first await.  url.toLowerCase()
\* throws inside the try block when url is not a string.
StartScrape(c, u, options) ==
  /\ Free(c)
  /\ started < MaxStarts
  /\ started' = started + 1
  /\ LET f == [IdleFrame EXCEPT !.pc = "start", !.op = "scrape", !.url = u,
                                !.options = options, !.base = stats]
     IN IF ~u.isString
          THEN /\ Settle(c, f, ScrapeCatch("Cannot read properties of undefined"))
               /\ UNCHANGED stats
          ELSE /\ Set(c, IF isPdfUrl(u) THEN BeginPDFParse(f, stats, "url")
                                        ELSE BeginDirectFetch(f, stats))
               /\ returned' = [returned EXCEPT ![c] = Pending]
  /\ UNCHANGED <<fnVars, runVars, puppeteerLoaded, lightpandaPath, browser, nextBrowser,
                 alive, openPages>>

\* scrape falling back to the rendering stages when a sniffed PDF fails to parse
AfterPDFParseFallsBack(c) ==
  LET f == frame[c]
      r == f.result
      g == [f EXCEPT !.lastError = r.error]
  IN /\ f.pc = "ret_pdf"
     /\ IF r.success
          THEN /\ Settle(c, [f EXCEPT !.method = "pdf"], ScrapeReturn(r, "pdf"))
               /\ UNCHANGED stats
          ELSE /\ Set(c, IF f.pdfFrom = "url" THEN BeginDirectFetch(g, stats)
                                              ELSE BeginLightpanda(g, stats))
               /\ UNCHANGED returned
     /\ UNCHANGED <<fnVars, runVars, puppeteerLoaded, lightpandaPath, browser, nextBrowser,
                    alive, openPages, started>>

\* scrape resumes after `await this.tryPDFParse(url, config)`
AfterPDFParse(c) ==
  LET f == frame[c]
      r == f.result
      g == [f EXCEPT !.lastError = r.error]
  IN /\ f.pc = "ret_pdf"
     /\ IF r.success
          THEN /\ Settle(c, [f EXCEPT !.method = "pdf"], ScrapeReturn(r, "pdf"))
               /\ UNCHANGED stats
          ELSE IF f.pdfFrom = "url"
                 THEN /\ Set(c, BeginDirectFetch(g, stats))
                      /\ UNCHANGED returned
                 ELSE /\ Settle(c, g, ScrapeReturn(r, g.method))
                      /\ UNCHANGED stats
     /\ UNCHANGED <<fnVars, runVars, puppeteerLoaded, lightpandaPath, browser, nextBrowser,
                    alive, openPages, started>>

\* scrape going from a failed direct fetch straight to the full browser
AfterDirectFetchSkipsLightpanda(c) ==
  LET f == frame[c]
      r == f.result
  IN /\ f.pc = "ret_df"
     /\ f.op = "scrape"
     /\ IF r.success /\ ~r.needsBrowser
          THEN /\ Settle(c, [f EXCEPT !.method = "direct-fetch"],
                         ScrapeReturn(r, "direct-fetch"))
               /\ UNCHANGED stats
          ELSE /\ Set(c, IF r.isPdf
                           THEN BeginPDFParse(f, stats, "sniff")
                           ELSE BeginPuppeteer([f EXCEPT !.lastError = r.error],
                                               stats))
               /\ UNCHANGED returned
     /\ UNCHANGED <<fnVars, runVars, puppeteerLoaded, lightpandaPath, browser, nextBrowser,
                    alive, openPages, started>>

\* scrape testing `result.success && result.needsBrowser` for the early return
AfterDirectFetchIgnoresVerdict(c) ==
  LET f == frame[c]
      r == f.result
  IN /\ f.pc = "ret_df"
     /\ f.op = "scrape"
     /\ IF r.success /\ r.needsBrowser
          THEN /\ Settle(c, [f EXCEPT !.method = "direct-fetch"],
                         ScrapeReturn(r, "direct-fetch"))
               /\ UNCHANGED stats
          ELSE /\ Set(c, IF r.isPdf
                           THEN BeginPDFParse(f, stats, "sniff")
                           ELSE BeginLightpanda([f EXCEPT !.lastError = r.error],
                                                stats))
               /\ UNCHANGED returned
     /\ UNCHANGED <<fnVars, runVars, puppeteerLoaded, lightpandaPath, browser, nextBrowser,
                    alive, openPages, started>>

\* scrape resumes after `await this.tryDirectFetch(url, config)`
AfterDirectFetch(c) ==
  LET f == frame[c]
      r == f.result
  IN /\ f.pc = "ret_df"
     /\ f.op = "scrape"
     /\ IF r.success /\ ~r.needsBrowser
          THEN /\ Settle(c, [f EXCEPT !.method = "direct-fetch"],
                         ScrapeReturn(r, "direct-fetch"))
               /\ UNCHANGED stats
          ELSE /\ Set(c, IF r.isPdf
                           THEN BeginPDFParse(f, stats, "sniff")
                           ELSE BeginLightpanda([f EXCEPT !.lastError = r.error],
                                                stats))
               /\ UNCHANGED returned
     /\ UNCHANGED <<fnVars, runVars, puppeteerLoaded, lightpandaPath, browser, nextBrowser,
                    alive, openPages, started>>

\* scrape resumes after `await this.tryLightpanda(url, config)`
AfterLightpanda(c) ==
  LET f == frame[c]
      r == f.result
  IN /\ f.pc = "ret_lp"
     /\ f.op = "scrape"
     /\ IF r.success
          THEN /\ Settle(c, [f EXCEPT !.method = "lightpanda"],
                         ScrapeReturn(r, "lightpanda"))
               /\ UNCHANGED stats
          ELSE /\ Set(c, BeginPuppeteer([f EXCEPT !.lastError = r.error], stats))
               /\ UNCHANGED returned
     /\ UNCHANGED <<fnVars, runVars, puppeteerLoaded, lightpandaPath, browser, nextBrowser,
                    alive, openPages, started>>

\* scrape resumes after `await this.tryPuppeteer(url, config)`; a rejection
\* of that promise lands in scrape's catch block
AfterPuppeteer(c) ==
  LET f == frame[c]
      r == f.result
  IN /\ f.pc = "ret_pp"
     /\ f.op = "scrape"
     /\ Settle(c,
               IF r.threw THEN f
               ELSE IF r.success THEN [f EXCEPT !.method = "puppeteer"]
               ELSE [f EXCEPT !.method = "failed", !.lastError = r.error],
               IF r.threw THEN ScrapeCatch(r.error)
               ELSE IF r.success THEN ScrapeReturn(r, "puppeteer")
               ELSE ScrapeReturn(r, "failed"))
     /\ UNCHANGED <<fnVars, runVars, stats, puppeteerLoaded, lightpandaPath, browser,
                    nextBrowser, alive, openPages, started>>

(***************************************************************************)
(* tryPDFParse(url, config)                                                *)
(***************************************************************************)
Same == <<fnVars, runVars, puppeteerLoaded, lightpandaPath, browser, nextBrowser, alive,
          openPages, returned, started>>

\* `await fetch(url, ...)` settles: rejection (network error, abort),
\* a non-2xx status, a content type that is not acceptable, or a response
PDFFetchSettles(c, o) ==
  LET f == frame[c]
  IN /\ f.pc = "pdf_fetch"
     /\ o \in {"throw", "non2xx", "otherType", "ok"}
     /\ frame' = [frame EXCEPT ![c] =
          CASE o = "throw"  -> StageEnds(f, "ret_pdf", o, Failure("PDF parsing error: fetch failed"))
            [] o = "non2xx" -> StageEnds(f, "ret_pdf", o, Failure("HTTP 404: Not Found"))
            [] o = "otherType" /\ ~includesDotPdf(f.url)
                            -> StageEnds(f, "ret_pdf", o, Failure("Not a PDF document"))
            [] OTHER        -> [f EXCEPT !.pc = "pdf_body"]]
     /\ UNCHANGED <<stats, Same>>

\* `await response.arrayBuffer()` settles, then the size check
PDFBodySettles(c, o) ==
  LET f == frame[c]
  IN /\ f.pc = "pdf_body"
     /\ o \in {"throw", "tooLarge", "ok"}
     /\ frame' = [frame EXCEPT ![c] =
          CASE o = "throw"    -> StageEnds(f, "ret_pdf", o, Failure("PDF parsing error: aborted"))
            [] o = "tooLarge" -> StageEnds(f, "ret_pdf", o, Failure("PDF too large (max 20MB)"))
            [] OTHER          -> [f EXCEPT !.pc = "pdf_parse"]]
     /\ UNCHANGED <<stats, Same>>

\* `await pdfParse(buffer)` settles
PDFParseSettles(c, ok) ==
  LET f == frame[c]
  IN /\ f.pc = "pdf_parse"
     /\ IF ok
          THEN /\ stats' = IncSuccesses(stats, "pdf")
               /\ frame' = [frame EXCEPT ![c] = StageEnds(f, "ret_pdf", "parsed",
                    Sized(StageResult(TRUE, Undefined, FALSE, FALSE, "pdf-json", FALSE),
                          PdfDocument.bytes, -1,
                          stringifyLength(PdfDocument.content, 2)))]
          ELSE /\ stats' = stats
               /\ frame' = [frame EXCEPT ![c] = StageEnds(f, "ret_pdf", "invalid",
                    Failure("PDF parsing error: invalid PDF"))]
     /\ UNCHANGED Same

(***************************************************************************)
(* tryDirectFetch(url, config)                                             *)
(***************************************************************************)
\* `await fetch(url, ...)` settles, then the status and content-type checks
DirectFetchSettles(c, o) ==
  LET f == [frame[c] EXCEPT !.timeoutCleared = (o # "throw")]
  IN /\ f.pc = "df_fetch"
     /\ o \in {"throw", "non2xx", "pdfType", "ok"}
     /\ frame' = [frame EXCEPT ![c] =
          CASE o = "throw"   -> StageEnds(f, "ret_df", o, Failure("fetch failed"))
            [] o = "non2xx"  -> StageEnds(f, "ret_df", o, Failure("HTTP 404: Not Found"))
            [] o = "pdfType" -> StageEnds(f, "ret_df", o,
                 StageResult(FALSE, "Content is PDF", TRUE, FALSE, Undefined, FALSE))
            [] OTHER         -> [f EXCEPT !.pc = "df_body"]]
     /\ UNCHANGED <<stats, Same>>

\* `await response.arrayBuffer()` rejects, or the body starts with %PDF
DirectFetchBodyRejected(c, o) ==
  LET f == frame[c]
  IN /\ f.pc = "df_body"
     /\ o \in {"throw", "pdfMagic"}
     /\ frame' = [frame EXCEPT ![c] =
          IF o = "throw"
            THEN StageEnds(f, "ret_df", o, Failure("body read failed"))
            ELSE StageEnds(f, "ret_df", o,
                 StageResult(FALSE, "Content is PDF (magic bytes)", TRUE, FALSE,
                             Undefined, FALSE))]
     /\ UNCHANGED <<stats, Same>>

\* `await response.arrayBuffer()` gives markup: classify it, extract content
DirectFetchBodyRead(c, html) ==
  LET f == frame[c]
      needsBrowser == detectBrowserRequirement(html, f.url)
  IN /\ f.pc = "df_body"
     /\ IF ~needsBrowser
          THEN /\ stats' = IncSuccesses(stats, "directFetch")
               /\ frame' = [frame EXCEPT ![c] = StageEnds(f, "ret_df", "static",
                    Sized(StageResult(TRUE, Undefined, FALSE, FALSE, "extracted", TRUE),
                          length(html), length(html),
                          stringifyLength(Extracted(html), 2)))]
          ELSE /\ stats' = stats
               /\ frame' = [frame EXCEPT ![c] = StageEnds(f, "ret_df", "needsBrowser",
                    Sized(StageResult(TRUE, Undefined, FALSE, TRUE, Undefined, TRUE),
                          length(html), length(html), -1))]
     /\ UNCHANGED Same

(***************************************************************************)
(* tryLightpanda(url, config)                                              *)
(***************************************************************************)
\* a 'close' handler that tests only `code === 0`
LightpandaExitsIgnoresOutput(c, o) ==
  LET f == frame[c]
  IN /\ f.pc = "lp_running"
     /\ o \in {"code0+output", "code0+empty", "nonzero", "killed", "spawnError"}
     /\ IF o \in {"code0+output", "code0+empty"}
          THEN /\ stats' = IncSuccesses(stats, "lightpanda")
               /\ frame' = [frame EXCEPT ![c] = StageEnds(f, "ret_lp", o,
                    Sized(StageResult(TRUE, Undefined, FALSE, FALSE, "extracted", TRUE),
                          length(LightpandaOutput), length(LightpandaOutput),
                          stringifyLength(Extracted(LightpandaOutput), 2)))]
          ELSE /\ stats' = stats
               /\ frame' = [frame EXCEPT ![c] = StageEnds(f, "ret_lp", o,
                    Failure("Lightpanda failed"))]
     /\ UNCHANGED Same

\* the spawned process emits 'close' (exit code, collected stdout) or 'error'
LightpandaExits(c, o) ==
  LET f == frame[c]
  IN /\ f.pc = "lp_running"
     /\ o \in {"code0+output", "code0+empty", "nonzero", "killed", "spawnError"}
     /\ IF o = "code0+output"
          THEN /\ stats' = IncSuccesses(stats, "lightpanda")
               /\ frame' = [frame EXCEPT ![c] = StageEnds(f, "ret_lp", o,
                    Sized(StageResult(TRUE, Undefined, FALSE, FALSE, "extracted", TRUE),
                          length(LightpandaOutput), length(LightpandaOutput),
                          stringifyLength(Extracted(LightpandaOutput), 2)))]
          ELSE /\ stats' = stats
               /\ frame' = [frame EXCEPT ![c] = StageEnds(f, "ret_lp", o,
                    Failure(CASE o = "code0+empty" -> "Lightpanda exited with code 0"
                              [] o = "nonzero"     -> "Lightpanda exited with code 1"
                              [] o = "killed"      -> "Lightpanda exited with code null"
                              [] OTHER             -> "Lightpanda process error"))]
     /\ UNCHANGED Same

(***************************************************************************)
(* tryPuppeteer(url, config)                                               *)
(***************************************************************************)
\* `this.browser = await puppeteer.launch(...)`, then this.browser.newPage()
PuppeteerLaunchSettles(c, ok) ==
  LET f == frame[c]
  IN /\ f.pc = "pp_launch"
     /\ IF ok
          THEN /\ browser' = nextBrowser
               /\ nextBrowser' = nextBrowser + 1
               /\ alive' = alive \cup {nextBrowser}
               /\ frame' = [frame EXCEPT ![c] =
                    [f EXCEPT !.pc = "pp_newPage", !.br = nextBrowser]]
          ELSE /\ UNCHANGED <<browser, nextBrowser, alive>>
               /\ frame' = [frame EXCEPT ![c] =
                    StageEnds(f, "ret_pp", "launchFailed",
                              Failure("Failed to launch the browser"))]
     /\ UNCHANGED <<fnVars, runVars, stats, puppeteerLoaded, lightpandaPath, openPages,
                    returned, started>>

\* `await this.browser.newPage()` settles
PuppeteerNewPageSettles(c, ok) ==
  LET f == frame[c]
  IN /\ f.pc = "pp_newPage"
     /\ ok => f.br \in alive
     /\ IF ok
          THEN /\ openPages' = [openPages EXCEPT ![f.br] = @ + 1]
               /\ frame' = [frame EXCEPT ![c] = [f EXCEPT !.pc = "pp_goto"]]
          ELSE /\ UNCHANGED openPages
               /\ frame' = [frame EXCEPT ![c] =
                    StageEnds(f, "ret_pp", "newPageFailed", Failure("Target closed"))]
     /\ UNCHANGED <<fnVars, runVars, stats, puppeteerLoaded, lightpandaPath, browser,
                    nextBrowser, alive, returned, started>>

\* setUserAgent, setViewport, setRequestInterception and page.goto settle
PuppeteerGotoSettles(c, ok) ==
  LET f == frame[c]
  IN /\ f.pc = "pp_goto"
     /\ ok => f.br \in alive
     /\ frame' = [frame EXCEPT ![c] =
          IF ok THEN [f EXCEPT !.pc = "pp_eval"]
                ELSE StageEnds(f, "ret_pp", "gotoFailed", Failure("Navigation timeout"))]
     /\ UNCHANGED <<stats, Same>>

\* `await page.evaluate(...)` settles; on success page.close() is called
PuppeteerEvaluateSettles(c, ok) ==
  LET f == frame[c]
  IN /\ f.pc = "pp_eval"
     /\ ok => f.br \in alive
     /\ frame' = [frame EXCEPT ![c] =
          IF ok THEN [f EXCEPT !.pc = "pp_close"]
                ELSE StageEnds(f, "ret_pp", "evaluateFailed",
                               Failure("Evaluation failed"))]
     /\ UNCHANGED <<stats, Same>>

\* `await page.close()` settles
PuppeteerCloseSettles(c, ok) ==
  LET f == frame[c]
  IN /\ f.pc = "pp_close"
     /\ ok => f.br \in alive
     /\ IF ok
          THEN /\ openPages' = [openPages EXCEPT ![f.br] = @ - 1]
               /\ stats' = IncSuccesses(stats, "puppeteer")
               /\ frame' = [frame EXCEPT ![c] = StageEnds(f, "ret_pp", "extracted",
                    Sized(StageResult(TRUE, Undefined, FALSE, FALSE, "page-json", FALSE),
                          stringifyLength(PageContent, 0), -1,
                          stringifyLength(PageContent, 2)))]
          ELSE /\ UNCHANGED <<openPages, stats>>
               /\ frame' = [frame EXCEPT ![c] =
                    StageEnds(f, "ret_pp", "closeFailed", Failure("Target closed"))]
     /\ UNCHANGED <<fnVars, runVars, puppeteerLoaded, lightpandaPath, browser, nextBrowser,
                    alive, returned, started>>

(***************************************************************************)
(* healthCheck()                                                           *)
(***************************************************************************)
\* return { status, methods: results, timestamp }
HealthReturn(h) ==
  LET any == h.directFetch \/ h.lightpanda \/ h.puppeteer
  IN Settled("health", [NoResult EXCEPT !.success = any],
             IF any THEN "healthy" ELSE "unhealthy", Undefined, FALSE)

\* healthCheck is called: up to the await inside tryDirectFetch
StartHealthCheck(c) ==
  /\ Free(c)
  /\ started < MaxStarts
  /\ started' = started + 1
  /\ Set(c, BeginDirectFetch([IdleFrame EXCEPT !.pc = "start",
                                               !.op = "healthCheck",
                                               !.base = stats], stats))
  /\ returned' = [returned EXCEPT ![c] = Pending]
  /\ UNCHANGED <<fnVars, runVars, puppeteerLoaded, lightpandaPath, browser, nextBrowser,
                 alive, openPages>>

\* results.directFetch = directResult.success; then tryLightpanda
HealthAfterDirectFetch(c) ==
  LET f == frame[c]
  IN /\ f.pc = "ret_df"
     /\ f.op = "healthCheck"
     /\ Set(c, BeginLightpanda([f EXCEPT !.health.directFetch = f.result.success],
                               stats))
     /\ UNCHANGED Same

\* results.lightpanda = lightpandaResult.success; then tryPuppeteer
HealthAfterLightpanda(c) ==
  LET f == frame[c]
  IN /\ f.pc = "ret_lp"
     /\ f.op = "healthCheck"
     /\ Set(c, BeginPuppeteer([f EXCEPT !.health.lightpanda = f.result.success],
                              stats))
     /\ UNCHANGED Same

\* results.puppeteer = puppeteerResult.success; await this.cleanup()
HealthAfterPuppeteer(c) ==
  LET f == frame[c]
      r == f.result
      g == [f EXCEPT !.health.puppeteer = ~r.threw /\ r.success]
  IN /\ f.pc = "ret_pp"
     /\ f.op = "healthCheck"
     /\ IF ~r.threw /\ browser # 0
          THEN /\ frame' = [frame EXCEPT ![c] =
                    [g EXCEPT !.pc = "hc_close", !.br = browser, !.result = NoResult]]
               /\ UNCHANGED returned
          ELSE Settle(c, g, HealthReturn(g.health))
     /\ UNCHANGED <<fnVars, runVars, stats, puppeteerLoaded, lightpandaPath, browser,
                    nextBrowser, alive, openPages, started>>

\* cleanup: `await this.browser.close()` settles; this.browser = null
HealthCleanupSettles(c, ok) ==
  LET f == frame[c]
      g == [f EXCEPT !.health.puppeteer = FALSE]
  IN /\ f.pc = "hc_close"
     /\ IF ok
          THEN /\ browser' = 0
               /\ alive' = alive \ {f.br}
               /\ openPages' = [openPages EXCEPT ![f.br] = 0]
               /\ Settle(c, f, HealthReturn(f.health))
          ELSE /\ UNCHANGED <<browser, alive, openPages>>
               /\ Settle(c, g, HealthReturn(g.health))
     /\ UNCHANGED <<fnVars, runVars, stats, puppeteerLoaded, lightpandaPath, nextBrowser, started>>

(***************************************************************************)
(* cleanup()                                                               *)
(***************************************************************************)
\* cleanup is called: if (this.browser) await this.browser.close()
StartCleanup(c) ==
  LET f == [IdleFrame EXCEPT !.pc = "start", !.op = "cleanup", !.base = stats]
  IN /\ Free(c)
     /\ started < MaxStarts
     /\ started' = started + 1
     /\ IF browser = 0
          THEN Settle(c, f, Settled("returned", NoResult, Undefined, Undefined, FALSE))
          ELSE /\ frame' = [frame EXCEPT ![c] =
                    [f EXCEPT !.pc = "cl_close", !.br = browser]]
               /\ returned' = [returned EXCEPT ![c] = Pending]
     /\ UNCHANGED <<fnVars, runVars, stats, puppeteerLoaded, lightpandaPath, browser,
                    nextBrowser, alive, openPages>>

\* `await this.browser.close()` settles; this.browser = null.  A rejection
\* leaves this.browser as it is and rejects cleanup.
CleanupSettles(c, ok) ==
  LET f == frame[c]
  IN /\ f.pc = "cl_close"
     /\ IF ok
          THEN /\ browser' = 0
               /\ alive' = alive \ {f.br}
               /\ openPages' = [openPages EXCEPT ![f.br] = 0]
               /\ Settle(c, f, Settled("returned", NoResult, Undefined,
                                       Undefined, FALSE))
          ELSE /\ UNCHANGED <<browser, alive, openPages>>
               /\ Settle(c, f, Settled("thrown", Failure("Target closed"),
                                       Undefined, Undefined, FALSE))
     /\ UNCHANGED <<fnVars, runVars, stats, puppeteerLoaded, lightpandaPath, nextBrowser,
                    started>>

(***************************************************************************)
(* Running an external process: tryLightpanda from its spawn on,           *)
(* takeScreenshotWithChrome (screenshot) and takeScreenshotOptimized       *)
(* (quickshot).  Time is explicit: a timer fires when the clock stands at  *)
(* its deadline, and the clock does not pass a deadline of an armed timer. *)
(***************************************************************************)
\* Latest instant the clock reaches.
MaxClock == 24000

\* the process timeout of an invocation
TimeoutOf(kind, retryCount) ==
  CASE kind = "lightpanda" -> DefaultTimeout + LightpandaBuffer
    [] kind = "screenshot" -> DefaultTimeout
    [] OTHER               -> processTimeout(retryCount)

\* the function is entered: tempFile is named, the arguments are built and
\* `await this.findChromePath()` is pending
Invocation(kind, retryCount) ==
  [NoAttempt EXCEPT !.pc = "findChrome",
                    !.budget = IF kind = "quickshot"
                                 THEN virtualTimeBudget(retryCount) ELSE 0,
                    !.timeout = TimeoutOf(kind, retryCount)]

Invoke(kind, retryCount) ==
  Append(invoked, [retryCount |-> retryCount,
                   budget |-> Invocation(kind, retryCount).budget,
                   timeout |-> Invocation(kind, retryCount).timeout])

\* spawn(...) and setTimeout(..., timeout); a failed spawn is reported by an
\* 'error' event on a later tick
Spawned(at, spawned) ==
  [at EXCEPT !.pc = "running",
             !.proc = IF spawned THEN "running" ELSE "spawnFailed",
             !.killAt = clock + at.timeout, !.spawnAt = clock]

\* resolve(v): a promise keeps the first value it is settled with
Resolve(at, v) == IF at.value = "pending" THEN [at EXCEPT !.value = v] ELSE at

\* screenshot / quickshot: { success: !!screenshot, screenshot, method }; a
\* rejection of the inner promise lands in the catch block
ShotReturn(kind, v) ==
  [threw |-> FALSE, success |-> v = "image",
   method |-> IF kind = "screenshot" THEN "chrome-screenshot" ELSE "quickshot"]

\* What a settled value says about how the process ended.  The values are a
\* data URL string or null (screenshot) and { success, error } or
\* { success, content, html, size, ... } (tryLightpanda): reading
\* terminationCause of any of them gives undefined.
terminationCause(v) == Undefined

\* screenshot(url) or quickshot(url) is called
StartShot(kind) ==
  /\ runKind = "none"
  /\ kind \in {"screenshot", "quickshot"}
  /\ runKind' = kind
  /\ atts' = [atts EXCEPT ![0] = Invocation(kind, 0)]
  /\ invoked' = Invoke(kind, 0)
  /\ UNCHANGED <<clock, scraperVars, fnVars>>

\* tryLightpanda reaches spawn(this.options.lightpandaPath, args, {timeout})
StartLightpanda(spawned) ==
  /\ runKind = "none"
  /\ runKind' = "lightpanda"
  /\ atts' = [atts EXCEPT ![0] =
       Spawned([NoAttempt EXCEPT !.timeout = TimeoutOf("lightpanda", 0)], spawned)]
  /\ invoked' = Invoke("lightpanda", 0)
  /\ UNCHANGED <<clock, scraperVars, fnVars>>

\* `await this.findChromePath()` settles.  Without a browser the function
\* throws into its own catch block: takeScreenshotWithChrome returns null,
\* takeScreenshotOptimized returns its retry when retryCount is 0.
ChromeLookupSettles(a, found, spawned) ==
  LET at == atts[a]
  IN /\ at.pc = "findChrome"
     /\ IF found
          THEN /\ atts' = [atts EXCEPT ![a] = Spawned(at, spawned)]
               /\ UNCHANGED invoked
          ELSE IF runKind = "quickshot" /\ a = 0
                 THEN /\ atts' = [atts EXCEPT ![0] = [at EXCEPT !.pc = "awaitRetry"],
                                              ![1] = Invocation("quickshot", 1)]
                      /\ invoked' = Invoke("quickshot", 1)
                 ELSE /\ atts' = [atts EXCEPT ![a] =
                           Resolve([at EXCEPT !.pc = "finished"], "null")]
                      /\ UNCHANGED invoked
     /\ UNCHANGED <<runKind, clock, scraperVars, fnVars>>

\* Chrome writes the file named by --screenshot
ChromeWritesFile(a) ==
  LET at == atts[a]
  IN /\ runKind \in {"screenshot", "quickshot"}
     /\ at.proc = "running"
     /\ ~at.wrote
     /\ atts' = [atts EXCEPT ![a] = [at EXCEPT !.wrote = TRUE, !.file = TRUE]]
     /\ UNCHANGED <<runKind, invoked, clock, scraperVars, fnVars>>

\* process.stdout.on('data'): output += data
LightpandaWritesOutput ==
  LET at == atts[0]
  IN /\ runKind = "lightpanda"
     /\ at.proc = "running"
     /\ ~at.stdout
     /\ atts' = [atts EXCEPT ![0] = [at EXCEPT !.stdout = TRUE]]
     /\ UNCHANGED <<runKind, invoked, clock, scraperVars, fnVars>>

\* killTimeout sending SIGTERM without arming the timer for SIGKILL
KillTimerFiresOnce(a) ==
  LET at == atts[a]
  IN /\ at.killAt = clock
     /\ atts' = [atts EXCEPT ![a] =
          IF ~at.processExited
            THEN [at EXCEPT !.killAt = -1,
                            !.signals = Append(@, <<"SIGTERM", clock>>)]
            ELSE [at EXCEPT !.killAt = -1]]
     /\ UNCHANGED <<runKind, invoked, clock, scraperVars, fnVars>>

\* killTimeout fires: if (!processExited) { chrome.kill('SIGTERM');
\* setTimeout(..., 1000) }.  For Lightpanda the timer is the one spawn's
\* timeout option arms: child.kill(killSignal), and nothing after it.
KillTimerFires(a) ==
  LET at == atts[a]
  IN /\ at.killAt = clock
     /\ atts' = [atts EXCEPT ![a] =
          IF runKind = "lightpanda"
            THEN [at EXCEPT !.killAt = -1,
                            !.signals = Append(@, <<"SIGTERM", clock>>)]
            ELSE IF ~at.processExited
                   THEN [at EXCEPT !.killAt = -1,
                                   !.signals = Append(@, <<"SIGTERM", clock>>),
                                   !.graceAt = clock + GraceMs]
                   ELSE [at EXCEPT !.killAt = -1]]
     /\ UNCHANGED <<runKind, invoked, clock, scraperVars, fnVars>>

\* the inner timer sending SIGKILL whether or not the process has exited
GraceTimerFiresUnguarded(a) ==
  LET at == atts[a]
  IN /\ at.graceAt = clock
     /\ atts' = [atts EXCEPT ![a] =
          [at EXCEPT !.graceAt = -1,
                     !.signals = Append(@, <<"SIGKILL", clock>>)]]
     /\ UNCHANGED <<runKind, invoked, clock, scraperVars, fnVars>>

\* the inner timer fires: if (!processExited) chrome.kill('SIGKILL')
GraceTimerFires(a) ==
  LET at == atts[a]
  IN /\ at.graceAt = clock
     /\ atts' = [atts EXCEPT ![a] =
          IF ~at.processExited
            THEN [at EXCEPT !.graceAt = -1,
                            !.signals = Append(@, <<"SIGKILL", clock>>)]
            ELSE [at EXCEPT !.graceAt = -1]]
     /\ UNCHANGED <<runKind, invoked, clock, scraperVars, fnVars>>

\* chrome.on('exit'): processExited = true; clearTimeout(killTimeout); then
\* the 500 ms delay.  The process ended by itself or by a signal; after a
\* failed spawn node may or may not emit 'exit'.
ChromeExits(a) ==
  LET at == atts[a]
  IN /\ runKind \in {"screenshot", "quickshot"}
     /\ at.pc = "running"
     /\ at.proc = "running" \/ (at.proc = "spawnFailed" /\ at.errorSeen)
     /\ atts' = [atts EXCEPT ![a] =
          [at EXCEPT !.pc = "delay", !.proc = "exited", !.processExited = TRUE,
                     !.killAt = -1, !.exitAt = clock,
                     !.readAt = clock + ReadDelayMs]]
     /\ UNCHANGED <<runKind, invoked, clock, scraperVars, fnVars>>

\* an 'error' handler that passes the error on: reject(error)
ErrorEventRejects(a) ==
  LET at == atts[a]
  IN /\ at.pc = "running"
     /\ at.proc = "spawnFailed"
     /\ ~at.errorSeen
     /\ atts' = [atts EXCEPT ![a] =
          IF at.value = "pending"
            THEN [at EXCEPT !.errorSeen = TRUE, !.value = "rejected"]
            ELSE [at EXCEPT !.errorSeen = TRUE]]
     /\ UNCHANGED <<runKind, invoked, clock, scraperVars, fnVars>>

\* chrome.on('error'): clearTimeout(killTimeout); resolve(null)
\* process.on('error'): resolve({ success: false, error })
ErrorEvent(a) ==
  LET at == atts[a]
  IN /\ at.pc = "running"
     /\ at.proc = "spawnFailed"
     /\ ~at.errorSeen
     /\ atts' = [atts EXCEPT ![a] =
          IF runKind = "lightpanda"
            THEN Resolve([at EXCEPT !.errorSeen = TRUE], "failure")
            ELSE Resolve([at EXCEPT !.errorSeen = TRUE, !.killAt = -1], "null")]
     /\ UNCHANGED <<runKind, invoked, clock, scraperVars, fnVars>>

\* process.on('close', code): success when code === 0 && output.length > 0.
\* node clears the timer of spawn's timeout option when the process exits.
LightpandaCloses(code) ==
  LET at == atts[0]
  IN /\ runKind = "lightpanda"
     /\ at.pc = "running"
     /\ at.proc = "running" \/ (at.proc = "spawnFailed" /\ at.errorSeen)
     /\ code \in {"0", "1", "null"}
     /\ atts' = [atts EXCEPT ![0] =
          Resolve([at EXCEPT !.pc = "finished", !.proc = "exited",
                             !.killAt = -1, !.exitAt = clock],
                  IF code = "0" /\ at.stdout THEN "success" ELSE "failure")]
     /\ UNCHANGED <<runKind, invoked, clock, scraperVars, fnVars>>

\* the 500 ms delay is over: fsPromises.readFile(tempFile) is issued
ReadDelayElapses(a) ==
  LET at == atts[a]
  IN /\ at.pc = "delay"
     /\ at.readAt = clock
     /\ atts' = [atts EXCEPT ![a] = [at EXCEPT !.pc = "reading", !.readAt = -1]]
     /\ UNCHANGED <<runKind, invoked, clock, scraperVars, fnVars>>

\* a failed read that calls takeScreenshotOptimized(url, config, 1) again
\* whatever retryCount is
ReadSettlesRetriesAgain(a, ok) ==
  LET at == atts[a]
  IN /\ at.pc = "reading"
     /\ ok => at.file
     /\ IF ok
          THEN /\ atts' = [atts EXCEPT ![a] = [at EXCEPT !.pc = "unlinking",
                                                         !.unlinkTried = TRUE]]
               /\ UNCHANGED invoked
          ELSE IF runKind = "quickshot"
                 THEN /\ atts' = [atts EXCEPT ![0] = [@ EXCEPT !.pc = "awaitRetry"],
                                              ![1] = Invocation("quickshot", 1)]
                      /\ invoked' = Invoke("quickshot", 1)
                 ELSE /\ atts' = [atts EXCEPT ![a] =
                           Resolve([at EXCEPT !.pc = "finished"], "null")]
                      /\ UNCHANGED invoked
     /\ UNCHANGED <<runKind, clock, scraperVars, fnVars>>

\* `await fsPromises.readFile(tempFile)` settles.  It rejects when the file
\* is missing and may reject when it exists (EMFILE, EIO).  On success unlink
\* is issued; on failure the catch block resolves null, or, in
\* takeScreenshotOptimized with retryCount 0, calls itself with retryCount 1.
ReadSettles(a, ok) ==
  LET at == atts[a]
  IN /\ at.pc = "reading"
     /\ ok => at.file
     /\ IF ok
          THEN /\ atts' = [atts EXCEPT ![a] = [at EXCEPT !.pc = "unlinking",
                                                         !.unlinkTried = TRUE]]
               /\ UNCHANGED invoked
          ELSE IF runKind = "quickshot" /\ a = 0
                 THEN /\ atts' = [atts EXCEPT ![0] = [at EXCEPT !.pc = "awaitRetry"],
                                              ![1] = Invocation("quickshot", 1)]
                      /\ invoked' = Invoke("quickshot", 1)
                 ELSE /\ atts' = [atts EXCEPT ![a] =
                           Resolve([at EXCEPT !.pc = "finished"], "null")]
                      /\ UNCHANGED invoked
     /\ UNCHANGED <<runKind, clock, scraperVars, fnVars>>

\* `await fsPromises.unlink(tempFile).catch(() => {})` settles; then
\* resolve(`data:image/png;base64,...`)
UnlinkSettles(a, ok) ==
  LET at == atts[a]
  IN /\ at.pc = "unlinking"
     /\ atts' = [atts EXCEPT ![a] =
          Resolve([at EXCEPT !.pc = "finished",
                             !.file = IF ok THEN FALSE ELSE at.file], "image")]
     /\ UNCHANGED <<runKind, invoked, clock, scraperVars, fnVars>>

\* `const retryResult = await this.takeScreenshotOptimized(url, config, 1)`
\* settles: resolve(retryResult); the same for `return this.take...(…, 1)`
RetrySettles ==
  /\ atts[0].pc = "awaitRetry"
  /\ atts[1].value # "pending"
  /\ atts' = [atts EXCEPT ![0] =
       Resolve([@ EXCEPT !.pc = "finished"], atts[1].value)]
  /\ UNCHANGED <<runKind, invoked, clock, scraperVars, fnVars>>

\* the deadlines of the armed timers
Deadlines ==
  UNION { {atts[a].killAt, atts[a].graceAt, atts[a].readAt} \ {-1} :
          a \in RetryCounts }

Earliest(S) == CHOOSE x \in S : \A y \in S : x <= y

\* Time passes: up to the next deadline, or by the grace period while a
\* process runs with no timer armed.  An 'error' event is emitted on the tick
\* after the spawn, before any timer can fire.
Advance ==
  /\ clock < MaxClock
  /\ \A a \in RetryCounts : atts[a].proc = "spawnFailed" => atts[a].errorSeen
  /\ \A d \in Deadlines : d > clock
  /\ IF Deadlines # {}
       THEN clock' = Earliest(Deadlines)
       ELSE /\ \E a \in RetryCounts : atts[a].proc = "running"
            /\ clock' = clock + GraceMs
  /\ UNCHANGED <<runKind, atts, invoked, scraperVars, fnVars>>

(***************************************************************************)
(* Specification.                                                          *)
(***************************************************************************)
Next ==
  \/ \E c \in Calls, u \in Urls, options \in CallOptions : StartScrape(c, u, options)
  \/ \E c \in Calls : AfterPDFParse(c)
  \/ \E c \in Calls : AfterDirectFetch(c)
  \/ \E c \in Calls : AfterLightpanda(c)
  \/ \E c \in Calls : AfterPuppeteer(c)
  \/ \E c \in Calls, o \in {"throw", "non2xx", "otherType", "ok"} : PDFFetchSettles(c, o)
  \/ \E c \in Calls, o \in {"throw", "tooLarge", "ok"} : PDFBodySettles(c, o)
  \/ \E c \in Calls, ok \in BOOLEAN : PDFParseSettles(c, ok)
  \/ \E c \in Calls, o \in {"throw", "non2xx", "pdfType", "ok"} : DirectFetchSettles(c, o)
  \/ \E c \in Calls, o \in {"throw", "pdfMagic"} : DirectFetchBodyRejected(c, o)
  \/ \E c \in Calls, html \in Htmls : DirectFetchBodyRead(c, html)
  \/ \E c \in Calls, o \in {"code0+output", "code0+empty", "nonzero", "killed", "spawnError"} :
        LightpandaExits(c, o)
  \/ \E c \in Calls, ok \in BOOLEAN : PuppeteerLaunchSettles(c, ok)
  \/ \E c \in Calls, ok \in BOOLEAN : PuppeteerNewPageSettles(c, ok)
  \/ \E c \in Calls, ok \in BOOLEAN : PuppeteerGotoSettles(c, ok)
  \/ \E c \in Calls, ok \in BOOLEAN : PuppeteerEvaluateSettles(c, ok)
  \/ \E c \in Calls, ok \in BOOLEAN : PuppeteerCloseSettles(c, ok)
  \/ \E c \in Calls : StartHealthCheck(c)
  \/ \E c \in Calls : HealthAfterDirectFetch(c)
  \/ \E c \in Calls : HealthAfterLightpanda(c)
  \/ \E c \in Calls : HealthAfterPuppeteer(c)
  \/ \E c \in Calls, ok \in BOOLEAN : HealthCleanupSettles(c, ok)

Spec == Init /\ [][Next]_vars

\* Calls that overlap on one instance with puppeteer installed and no
\* Lightpanda binary: scrapes of a page whose direct fetch answers 404, and
\* cleanup.
ShopApp == Url("https://shop.test/app", TRUE, FALSE, FALSE, FALSE, FALSE, FALSE)

ConcInit == Init /\ puppeteerLoaded /\ lightpandaPath = "missing"

ConcNext ==
  \/ \E c \in Slots : StartScrape(c, ShopApp, NoOptions)
  \/ \E c \in Slots : DirectFetchSettles(c, "non2xx")
  \/ \E c \in Slots : AfterDirectFetch(c)
  \/ \E c \in Slots : AfterLightpanda(c)
  \/ \E c \in Slots : AfterPuppeteer(c)
  \/ \E c \in Slots, ok \in BOOLEAN : PuppeteerLaunchSettles(c, ok)
  \/ \E c \in Slots, ok \in BOOLEAN : PuppeteerNewPageSettles(c, ok)
  \/ \E c \in Slots, ok \in BOOLEAN : PuppeteerGotoSettles(c, ok)
  \/ \E c \in Slots, ok \in BOOLEAN : PuppeteerEvaluateSettles(c, ok)
  \/ \E c \in Slots, ok \in BOOLEAN : PuppeteerCloseSettles(c, ok)
  \/ \E c \in Slots : StartCleanup(c)
  \/ \E c \in Slots, ok \in BOOLEAN : CleanupSettles(c, ok)

ConcSpec == ConcInit /\ [][ConcNext]_vars

\* scrape and healthCheck calls that overlap on one instance with puppeteer
\* and a Lightpanda binary installed: the page is one whose direct fetch
\* fails, succeeds, or asks for a browser.  Of the browser's operations only
\* page.evaluate fails here.
MixedInit == Init /\ puppeteerLoaded /\ lightpandaPath = "file"

MixedNext ==
  \/ \E c \in Slots : StartScrape(c, ShopApp, NoOptions)
  \/ \E c \in Slots : StartHealthCheck(c)
  \/ \E c \in Slots, o \in {"non2xx", "ok"} : DirectFetchSettles(c, o)
  \/ \E c \in Slots :
        \E html \in {Html("static-long", {}, {}, 900),
                     Html("nuxt-shell", {"window.__NUXT__"}, {}, 0)} :
          DirectFetchBodyRead(c, html)
  \/ \E c \in Slots : AfterDirectFetch(c)
  \/ \E c \in Slots, o \in {"code0+output", "nonzero"} : LightpandaExits(c, o)
  \/ \E c \in Slots : AfterLightpanda(c)
  \/ \E c \in Slots : AfterPuppeteer(c)
  \/ \E c \in Slots : PuppeteerLaunchSettles(c, TRUE)
  \/ \E c \in Slots : PuppeteerNewPageSettles(c, TRUE)
  \/ \E c \in Slots : PuppeteerGotoSettles(c, TRUE)
  \/ \E c \in Slots, ok \in BOOLEAN : PuppeteerEvaluateSettles(c, ok)
  \/ \E c \in Slots : PuppeteerCloseSettles(c, TRUE)
  \/ \E c \in Slots : HealthAfterDirectFetch(c)
  \/ \E c \in Slots : HealthAfterLightpanda(c)
  \/ \E c \in Slots : HealthAfterPuppeteer(c)
  \/ \E c \in Slots : HealthCleanupSettles(c, TRUE)

MixedSpec == MixedInit /\ [][MixedNext]_vars

\* detectBrowserRequirement(html, url) is evaluated
Classify ==
  /\ input.fn = "detectBrowserRequirement"
  /\ output = <<>>
  /\ output' = <<detectBrowserRequirement(input.html, Features(input.url))>>
  /\ UNCHANGED <<input, runVars, scraperVars>>

\* The classifier on its own: the arguments are drawn at the start.
ClassifyInit ==
  /\ Idle /\ puppeteerLoaded /\ lightpandaPath = "file"
  /\ input \in { [fn |-> "detectBrowserRequirement", html |-> h, url |-> u] :
                  h \in Markups, u \in RawUrls }
  /\ output = <<>>

ClassifySpec == ClassifyInit /\ [][Classify]_vars

\* getBrowserIndicators(html): a message for each of its five patterns that
\* the markup matches
getBrowserIndicators(html) ==
  {"React root div detected" : p \in html.spa \cap {"<div id=root></div>"}} \cup
  {"Next.js data detected" : p \in html.spa \cap {"window.__NEXT_DATA__"}} \cup
  {"Cloudflare challenge detected" : p \in html.protection \cap {"cloudflare.*challenge"}} \cup
  {"Cloudflare protection detected" : p \in html.protection \cap {"cloudflare.*protection"}} \cup
  {"JavaScript required message detected" :
     p \in html.protection \cap {"please enable javascript"}}

\* markup that matches other patterns of detectBrowserRequirement
IndicatorMarkups ==
  Markups \cup
  { Html("react-root", {"<div id=root></div>"}, {}, 0),
    Html("cf-protection", {}, {"cloudflare.*protection"}, 60),
    Html("cf-ray-id", {}, {"ray id.*cloudflare"}, 60) }

\* tryDirectFetch from `const needsBrowser = ...` on: the members of the
\* result that tell of the verdict
Indicate ==
  LET needsBrowser == detectBrowserRequirement(input.html, Features(input.url))
  IN /\ input.fn = "tryDirectFetch"
     /\ output = <<>>
     /\ output' = IF needsBrowser
                    THEN <<[needsBrowser |-> TRUE,
                            browserIndicators |-> getBrowserIndicators(input.html)]>>
                    ELSE <<[needsBrowser |-> FALSE, browserIndicators |-> {}]>>
     /\ UNCHANGED <<input, runVars, scraperVars>>

IndicateInit ==
  /\ Idle /\ puppeteerLoaded /\ lightpandaPath = "file"
  /\ input \in { [fn |-> "tryDirectFetch", html |-> h, url |-> u] :
                  h \in IndicatorMarkups, u \in RawUrls }
  /\ output = <<>>

IndicateSpec == IndicateInit /\ [][Indicate]_vars

\* Number.prototype.toFixed(digits) of the quotient num / den, for digits 0
\* and 1: the decimal with that many fraction digits nearest to the value,
\* the larger one of two equally near.
toFixedTruncates(num, den, digits) ==
  LET scale == IF digits = 0 THEN 1 ELSE 10
      n == (scale * num) \div den
  IN IF digits = 0 THEN ToString(n)
     ELSE ToString(n \div scale) \o "." \o ToString(n % scale)

toFixed(num, den, digits) ==
  LET scale == IF digits = 0 THEN 1 ELSE 10
      n == (2 * scale * num + den) \div (2 * den)
  IN IF digits = 0 THEN ToString(n)
     ELSE ToString(n \div scale) \o "." \o ToString(n % scale)

\* getStats(): the counters as they are and a rate string for each method
successRate(counter) ==
  IF counter.attempts > 0
  THEN toFixed(counter.successes * 100, counter.attempts, 1) \o "%"
  ELSE "0%"

getStats ==
  [directFetch |-> stats.directFetch, lightpanda |-> stats.lightpanda,
   puppeteer |-> stats.puppeteer, pdf |-> stats.pdf,
   successRates |-> [m \in Methods |-> successRate(stats[m])]]

\* The stats object of the result the call in slot c returned, read now.
\* getStats copies this.stats with a spread: the four fields of the copy hold
\* the counter objects of this.stats themselves, which the constructor
\* creates and the stages increment in place.
resultStats(c) == [m \in Methods |-> stats[m]]

GetStats ==
  /\ input.fn = "getStats"
  /\ output = <<>>
  /\ output' = <<getStats>>
  /\ UNCHANGED <<input, runVars, scraperVars>>

\* getStats on an instance whose calls have left any counters behind them:
\* no method has more than MaxAttempts attempts, or more successes than
\* attempts.
MaxAttempts == 3

Counters ==
  { [attempts |-> a, successes |-> k] : a \in 0..MaxAttempts, k \in 0..MaxAttempts }

StatsInit ==
  /\ \E counters \in [Methods -> {n \in Counters : n.successes <= n.attempts}] :
       Instance(counters)
  /\ puppeteerLoaded /\ lightpandaPath = "file"
  /\ input = [NoInput EXCEPT !.fn = "getStats"]
  /\ output = <<>>

StatsSpec == StatsInit /\ [][GetStats]_vars

\* Markup as extractContentFromHTML reads it.  title and description are the
\* texts of <title> and of the description meta tag ("" when the tag is
\* missing), jsonLd the bodies of the ld+json script elements in document
\* order, metas the number of meta tags with a property or name and a
\* content, textLen the length of the text the body leaves after scripts,
\* styles and tags are taken out.  assignment is the first inline statement
\* that begins with "window.__": the tokens of the global's name after that
\* prefix, the kind of the object literal assigned, and whether "};" ends it.
\* A blob is "json" (valid JSON), "notJson" (an object literal that is not
\* JSON) or "jsonBraceSemi" (valid JSON with the text "};" inside a string).
Blobs == {"json", "notJson", "jsonBraceSemi"}

NoAssignment == [name |-> <<>>, blob |-> "json", semicolon |-> FALSE]

Assignments ==
  {NoAssignment} \cup
  [name : { <<"NEXT_DATA__">>, <<"INITIAL_STATE__">>, <<"INITIAL_DATA__">>,
            <<"NEXT_DATA__", "__">>, <<"INITIAL_STATE__", "__">>,
            <<"APP_STATE__">> },
   blob : Blobs, semicolon : BOOLEAN]

Pages ==
  [title : {"", "Shop"}, description : {"", "A shop"},
   jsonLd : {<<>>, <<"notJson">>, <<"json", "notJson", "json">>},
   metas : {0, 2, 16}, textLen : {120, 2400},
   assignment : Assignments]

\* /window\.__(?:INITIAL_STATE__|INITIAL_DATA__|NEXT_DATA__)__\s*=\s*({[\s\S]*?});/
\* against the assignment: after "window.__" one of the three alternatives,
\* then the literal "__", then "=", then the shortest text from "{" to "};".
windowDataMatch(assignment) ==
  /\ Len(assignment.name) = 2
  /\ assignment.name[1] \in {"INITIAL_STATE__", "INITIAL_DATA__", "NEXT_DATA__"}
  /\ assignment.name[2] = "__"
  /\ assignment.semicolon

\* JSON.parse of the captured text: the lazy capture stops at the first "};"
parses(blob) == blob = "json"

\* the object extractContentFromHTML(html) serializes when new Date() reads
\* now; for markup that is a string nothing in the function throws
extractContentFromHTMLDated(html, now) ==
  [title |-> html.title,
   metaDescription |-> html.description,
   structuredData |-> "null",
   windowData |-> "null",
   metaTags |-> "null",
   content |-> now,
   extractedAt |-> now]

extractContentFromHTML(html, now) ==
  LET structuredData == SelectSeq(html.jsonLd, parses)
      windowData ==
        IF windowDataMatch(html.assignment)
        THEN IF parses(html.assignment.blob) THEN "object"
             ELSE "Found but unparseable"
        ELSE "null"
      metaTags == IF html.metas < 15 THEN html.metas ELSE 15
  IN [title |-> html.title,
      metaDescription |-> html.description,
      structuredData |-> IF Len(structuredData) > 0 THEN structuredData ELSE "null",
      windowData |-> windowData,
      metaTags |-> IF metaTags > 0 THEN metaTags ELSE "null",
      content |-> IF html.textLen < 2000 THEN html.textLen ELSE 2000,
      extractedAt |-> now]

\* readings of the wall clock
MaxNow == 2

ExtractContent(now) ==
  /\ input.fn = "extractContentFromHTML"
  /\ Len(output) < 2
  /\ output # <<>> => now >= output[Len(output)].extractedAt
  /\ output' = Append(output, extractContentFromHTML(input.html, now))
  /\ UNCHANGED <<input, runVars, scraperVars>>

\* The extractor applied, and applied again, to one markup on a new instance.
ExtractInit ==
  /\ Idle /\ puppeteerLoaded /\ lightpandaPath = "file"
  /\ input \in { [fn |-> "extractContentFromHTML", html |-> h,
                  url |-> RawUrl(<<>>, <<>>)] : h \in Pages }
  /\ output = <<>>

ExtractNext == \E now \in 0..MaxNow : ExtractContent(now)

ExtractSpec == ExtractInit /\ [][ExtractNext]_vars

\* askAI(url, question, options).  input holds what the call finds configured:
\* whether an OpenRouter key, an OpenAI key and this.options.apiKey are set
\* (in the options, on the instance or in the environment), and whether the
\* question is a string.  output is the call's history: the result scrape
\* gave it, the providers it called, and last the response it returned.
\* The scrapeTime of an event is a set in the sense of Get.
AskInputs ==
  [fn : {"askAI"}, openRouterKey : BOOLEAN, openAIKey : BOOLEAN,
   apiKey : BOOLEAN, question : BOOLEAN]

\* obj.field of an object that may lack the field: the set that holds the
\* field's value, empty when reading the field gives undefined
Get(obj, field) == IF field \in DOMAIN obj THEN {obj[field]} ELSE {}

Event(kind, provider, success, method, scrapeTime) ==
  [kind |-> kind, provider |-> provider, success |-> success,
   method |-> method, scrapeTime |-> scrapeTime]

\* the object scrape returned to askAI, totalTime milliseconds after it began
scrapeResult(c, totalTime) ==
  IF returned[c].hasStats
    THEN [success |-> returned[c].success, method |-> returned[c].method,
          performance |-> [totalTime |-> totalTime, method |-> returned[c].method],
          stats |-> getStats]
    ELSE [success |-> returned[c].success, method |-> returned[c].method,
          performance |-> [totalTime |-> totalTime]]

\* the response of a call whose answer came from provider
Answered(r, provider) ==
  Event("response", provider, TRUE, r.method, Get(r.stats, "totalTime"))

\* the order in which askAI turns to the providers
PriorityOpenAIFirst == <<"openai", "openrouter", "backend", "local">>

Priority == <<"openrouter", "openai", "backend", "local">>

Configured(provider) ==
  CASE provider = "openrouter" -> input.openRouterKey
    [] provider = "openai"     -> input.openAIKey
    [] provider = "backend"    -> input.apiKey
    [] OTHER                   -> TRUE

\* askAI from the i-th provider on, r the scrape result: the history grows
\* by the call of the first configured provider, and for the local one, which
\* is not awaited, by the response as well
RECURSIVE Proceed(_, _, _)
Proceed(events, r, i) ==
  IF Priority[i] = "local"
    THEN Append(Append(events, Event("call", "local", FALSE, Undefined, {})),
                IF input.question THEN Answered(r, "local")
                ELSE Event("response", Undefined, FALSE, Undefined, {}))
    ELSE IF Configured(Priority[i])
           THEN Append(events, Event("call", Priority[i], FALSE, Undefined, {}))
           ELSE Proceed(events, r, i + 1)

\* a scrape that took no longer than this many milliseconds
MaxTotalTime == 2

\* askAI resumes after `await this.scrape(url, options)`
AskAIAfterScrape(c, totalTime) ==
  LET r == scrapeResult(c, totalTime)
      scraped == Event("scraped", Undefined, r.success, r.method, Get(r.performance, "totalTime"))
  IN /\ input.fn = "askAI"
     /\ frame[c].op = "scrape" /\ frame[c].pc = "done"
     /\ output = <<>>
     /\ output' = IF ~r.success
                    THEN <<scraped, Event("response", Undefined, FALSE, r.method, {})>>
                    ELSE Proceed(<<scraped>>, r, 1)
     /\ UNCHANGED <<input, runVars, scraperVars>>

\* the provider askAI awaits answers (ok) or its call fails: the request
\* throws, or the answer's status is not 2xx
ProviderSettles(c, ok) ==
  LET last == output[Len(output)]
      r == scrapeResult(c, CHOOSE totalTime \in output[1].scrapeTime : TRUE)
      i == CHOOSE j \in 1..Len(Priority) : Priority[j] = last.provider
  IN /\ input.fn = "askAI"
     /\ output # <<>>
     /\ last.kind = "call"
     /\ output' = IF ok THEN Append(output, Answered(r, last.provider))
                   ELSE Proceed(output, r, i + 1)
     /\ UNCHANGED <<input, runVars, scraperVars>>

\* One askAI call on a new instance.
AskInit == Idle /\ input \in AskInputs /\ output = <<>>

AskNext ==
  \/ \E c \in Calls, u \in Urls, options \in CallOptions :
        started = 0 /\ StartScrape(c, u, options)
  \/ \E c \in Calls : AfterPDFParse(c)
  \/ \E c \in Calls : AfterDirectFetch(c)
  \/ \E c \in Calls : AfterLightpanda(c)
  \/ \E c \in Calls : AfterPuppeteer(c)
  \/ \E c \in Calls, o \in {"throw", "non2xx", "otherType", "ok"} : PDFFetchSettles(c, o)
  \/ \E c \in Calls, o \in {"throw", "tooLarge", "ok"} : PDFBodySettles(c, o)
  \/ \E c \in Calls, ok \in BOOLEAN : PDFParseSettles(c, ok)
  \/ \E c \in Calls, o \in {"throw", "non2xx", "pdfType", "ok"} : DirectFetchSettles(c, o)
  \/ \E c \in Calls, o \in {"throw", "pdfMagic"} : DirectFetchBodyRejected(c, o)
  \/ \E c \in Calls, html \in Htmls : DirectFetchBodyRead(c, html)
  \/ \E c \in Calls, o \in {"code0+output", "code0+empty", "nonzero", "killed", "spawnError"} :
        LightpandaExits(c, o)
  \/ \E c \in Calls, ok \in BOOLEAN : PuppeteerLaunchSettles(c, ok)
  \/ \E c \in Calls, ok \in BOOLEAN : PuppeteerNewPageSettles(c, ok)
  \/ \E c \in Calls, ok \in BOOLEAN : PuppeteerGotoSettles(c, ok)
  \/ \E c \in Calls, ok \in BOOLEAN : PuppeteerEvaluateSettles(c, ok)
  \/ \E c \in Calls, ok \in BOOLEAN : PuppeteerCloseSettles(c, ok)
  \/ \E c \in Calls, totalTime \in 0..MaxTotalTime : AskAIAfterScrape(c, totalTime)
  \/ \E c \in Calls, ok \in BOOLEAN : ProviderSettles(c, ok)

AskSpec == AskInit /\ [][AskNext]_vars

\* smartScrape(url, options): a scraper made for the one call, its scrape,
\* and cleanup.  output holds the locals of smartScrape: where it stands
\* ("try" and "catch" while it awaits cleanup in that block, then "returned"
\* or "thrown"), and how many times it has called cleanup.
Smart(pc, cleanups) == <<[pc |-> pc, cleanups |-> cleanups]>>

\* scraper.cleanup() up to its await, called from the frame of slot c
CallCleanup(c) ==
  LET f == [IdleFrame EXCEPT !.pc = "start", !.op = "cleanup", !.base = stats]
  IN IF browser = 0
       THEN Settle(c, f, Settled("returned", NoResult, Undefined, Undefined, FALSE))
       ELSE /\ frame' = [frame EXCEPT ![c] =
                 [f EXCEPT !.pc = "cl_close", !.br = browser]]
            /\ returned' = [returned EXCEPT ![c] = Pending]

\* a convenience function that hands the result back without cleanup
SmartAfterScrapeReturns(c) ==
  /\ input.fn = "smartScrape"
  /\ frame[c].op = "scrape" /\ frame[c].pc = "done"
  /\ output = <<>>
  /\ output' = Smart(IF returned[c].kind = "thrown" THEN "thrown" ELSE "returned", 0)
  /\ UNCHANGED <<input, runVars, scraperVars>>

\* smartScrape resumes after `await scraper.scrape(url, options)` and calls
\* cleanup, in the try block when scrape returned and in the catch block
\* when it threw
SmartAfterScrape(c) ==
  /\ input.fn = "smartScrape"
  /\ frame[c].op = "scrape" /\ frame[c].pc = "done"
  /\ output = <<>>
  /\ output' = Smart(IF returned[c].kind = "thrown" THEN "catch" ELSE "try", 1)
  /\ CallCleanup(c)
  /\ UNCHANGED <<input, runVars, stats, puppeteerLoaded, lightpandaPath, browser,
                 nextBrowser, alive, openPages, started>>

\* smartScrape resumes after `await scraper.cleanup()`.  In the try block it
\* returns the result, or, cleanup having thrown, enters the catch block and
\* calls cleanup again; in the catch block it throws.
SmartAfterCleanup(c) ==
  /\ input.fn = "smartScrape"
  /\ frame[c].op = "cleanup" /\ frame[c].pc = "done"
  /\ output # <<>>
  /\ output[1].pc \in {"try", "catch"}
  /\ IF output[1].pc = "try" /\ returned[c].kind = "thrown"
       THEN /\ output' = Smart("catch", output[1].cleanups + 1)
            /\ CallCleanup(c)
       ELSE /\ output' = Smart(IF output[1].pc = "try" THEN "returned" ELSE "thrown",
                               output[1].cleanups)
            /\ UNCHANGED <<frame, returned>>
  /\ UNCHANGED <<input, runVars, stats, puppeteerLoaded, lightpandaPath, browser,
                 nextBrowser, alive, openPages, started>>

\* One smartScrape call: the instance is new, and its options are the call's.
SmartInit == Idle /\ input = [NoInput EXCEPT !.fn = "smartScrape"] /\ output = <<>>

SmartNext ==
  \/ \E c \in Calls, u \in Urls : started = 0 /\ StartScrape(c, u, NoOptions)
  \/ \E c \in Calls : AfterPDFParse(c)
  \/ \E c \in Calls : AfterDirectFetch(c)
  \/ \E c \in Calls : AfterLightpanda(c)
  \/ \E c \in Calls : AfterPuppeteer(c)
  \/ \E c \in Calls, o \in {"throw", "non2xx", "otherType", "ok"} : PDFFetchSettles(c, o)
  \/ \E c \in Calls, o \in {"throw", "tooLarge", "ok"} : PDFBodySettles(c, o)
  \/ \E c \in Calls, ok \in BOOLEAN : PDFParseSettles(c, ok)
  \/ \E c \in Calls, o \in {"throw", "non2xx", "pdfType", "ok"} : DirectFetchSettles(c, o)
  \/ \E c \in Calls, o \in {"throw", "pdfMagic"} : DirectFetchBodyRejected(c, o)
  \/ \E c \in Calls, html \in Htmls : DirectFetchBodyRead(c, html)
  \/ \E c \in Calls, o \in {"code0+output", "code0+empty", "nonzero", "killed", "spawnError"} :
        LightpandaExits(c, o)
  \/ \E c \in Calls, ok \in BOOLEAN : PuppeteerLaunchSettles(c, ok)
  \/ \E c \in Calls, ok \in BOOLEAN : PuppeteerNewPageSettles(c, ok)
  \/ \E c \in Calls, ok \in BOOLEAN : PuppeteerGotoSettles(c, ok)
  \/ \E c \in Calls, ok \in BOOLEAN : PuppeteerEvaluateSettles(c, ok)
  \/ \E c \in Calls, ok \in BOOLEAN : PuppeteerCloseSettles(c, ok)
  \/ \E c \in Calls : SmartAfterScrape(c)
  \/ \E c \in Calls, ok \in BOOLEAN : CleanupSettles(c, ok)
  \/ \E c \in Calls : SmartAfterCleanup(c)

SmartSpec == SmartInit /\ [][SmartNext]_vars

\* The installer script.  input holds what a run finds: process.platform
\* (for win32, whether uname tells of WSL).  output holds the one record of
\* the installer's state over its runs:
\*   pc       - "idle", "request" (https.get is out), "body" (the response is
\*              piped to the file), "ended"
\*   file     - what is at BINARY_PATH: "absent", "partial" or "complete"
\*   atStart  - file when the run began
\*   code     - the exit status of the run's process, -1 while it runs
\*   how      - "exit" (process.exit), "returned" (installLightpanda returned)
\*              or "drained" (nothing left to wait for, the promise pending)
\*   error    - message of the error the catch block printed
\*   requests - https.get calls of the run;  outer - a request answered by a
\*              redirect still has its timeout armed;  run - number of the run
Platforms == {"darwin", "linux", "wsl", "win32", "freebsd"}

InstallInputs == [fn : {"installLightpanda"}, platform : Platforms]

MaxRuns == 2

NotInstalled(file) ==
  [pc |-> "idle", file |-> file, atStart |-> file, code |-> -1, how |-> "none",
   error |-> Undefined, requests |-> 0, outer |-> FALSE, run |-> 0]

\* detectPlatform()
detectPlatform(platform) ==
  IF platform \in {"darwin", "linux", "wsl"} THEN platform ELSE "null"

\* a catch block that lets the error end the process
CaughtFailsInstall(st, message) ==
  [st EXCEPT !.pc = "ended", !.code = 1, !.how = "exit", !.error = message]

\* installLightpanda: catch (error) { ...; process.exit(0) }
Caught(st, message) ==
  [st EXCEPT !.pc = "ended", !.code = 0, !.how = "exit", !.error = message]

\* installLightpanda returns; the process ends when nothing is left to wait for
Returned(st) == [st EXCEPT !.pc = "ended", !.code = 0, !.how = "returned"]

\* node scripts/install-lightpanda.js: installLightpanda up to the request of
\* downloadFile.  mkdirOk: the bin directory exists or mkdir succeeds.
StartInstall(mkdirOk) ==
  LET st == [output[1] EXCEPT !.run = @ + 1, !.atStart = output[1].file,
                              !.code = -1, !.how = "none", !.error = Undefined,
                              !.requests = 0, !.outer = FALSE]
  IN /\ input.fn = "installLightpanda"
     /\ output[1].pc \in {"idle", "ended"}
     /\ output[1].run < MaxRuns
     /\ output' =
          <<IF detectPlatform(input.platform) = "null" THEN Returned(st)
            ELSE IF ~mkdirOk THEN Caught(st, "EACCES: permission denied, mkdir")
            ELSE IF st.file # "absent" THEN Returned(st)
            ELSE [st EXCEPT !.pc = "request", !.requests = 1]>>
     /\ UNCHANGED <<input, runVars, scraperVars>>

\* the response callback of https.get: a redirect starts downloadFile again
\* and leaves the first request and its timeout as they are; a status other
\* than 200 rejects; 200 opens the file and pipes the response into it
ResponseArrives(status) ==
  LET st == output[1]
  IN /\ input.fn = "installLightpanda"
     /\ st.pc = "request"
     /\ status \in {"302", "404", "200"}
     /\ status = "302" => ~st.outer
     /\ output' =
          <<CASE status = "302" -> [st EXCEPT !.requests = @ + 1, !.outer = TRUE]
              [] status = "404" -> Caught(st, "HTTP 404: Not Found")
              [] OTHER          -> [st EXCEPT !.pc = "body", !.file = "partial"]>>
     /\ UNCHANGED <<input, runVars, scraperVars>>

\* request.on('error', reject): no connection, or it broke before a response
RequestError ==
  LET st == output[1]
  IN /\ input.fn = "installLightpanda"
     /\ st.pc = "request"
     /\ output' = <<Caught(st, "connect ECONNREFUSED")>>
     /\ UNCHANGED <<input, runVars, scraperVars>>

\* request.setTimeout(60000, ...) fires, for the request that is out or for
\* the one a redirect answered: request.destroy(); reject('Download timeout')
DownloadTimeout ==
  LET st == output[1]
  IN /\ input.fn = "installLightpanda"
     /\ st.pc \in {"request", "body"}
     /\ output' = <<Caught(st, "Download timeout")>>
     /\ UNCHANGED <<input, runVars, scraperVars>>

\* fileStream.on('error', reject): the disk is full
StreamError ==
  LET st == output[1]
  IN /\ input.fn = "installLightpanda"
     /\ st.pc = "body"
     /\ output' = <<Caught(st, "ENOSPC: no space left on device, write")>>
     /\ UNCHANGED <<input, runVars, scraperVars>>

\* the connection closes before the body is complete: the response emits
\* 'aborted' and 'close', for which nothing listens, and never 'end', so the
\* file stream never finishes and the promise of downloadFile stays pending
ConnectionBreaks ==
  LET st == output[1]
  IN /\ input.fn = "installLightpanda"
     /\ st.pc = "body"
     /\ output' = <<[st EXCEPT !.pc = "ended", !.code = 0, !.how = "drained"]>>
     /\ UNCHANGED <<input, runVars, scraperVars>>

\* fileStream 'finish': resolve(); makeExecutable, which catches its own
\* error; then the verification: existsSync and stat of the binary
DownloadFinishes(verified) ==
  LET st == [output[1] EXCEPT !.file = "complete"]
  IN /\ input.fn = "installLightpanda"
     /\ st.pc = "body"
     /\ output' = <<IF verified THEN Returned(st)
                    ELSE Caught([st EXCEPT !.file = "absent"],
                                "Binary download verification failed")>>
     /\ UNCHANGED <<input, runVars, scraperVars>>

\* Runs of the installer on one machine, the first with no binary installed.
InstallInit == Idle /\ input \in InstallInputs /\ output = <<NotInstalled("absent")>>

InstallNext ==
  \/ \E mkdirOk \in BOOLEAN : StartInstall(mkdirOk)
  \/ \E status \in {"302", "404", "200"} : ResponseArrives(status)
  \/ RequestError
  \/ DownloadTimeout
  \/ StreamError
  \/ ConnectionBreaks
  \/ \E verified \in BOOLEAN : DownloadFinishes(verified)

InstallSpec == InstallInit /\ [][InstallNext]_vars

\* One run of a process-running function on an instance that is otherwise
\* idle.
RunInit == Init /\ puppeteerLoaded /\ lightpandaPath = "file"

RunNext ==
  \/ \E kind \in {"screenshot", "quickshot"} : StartShot(kind)
  \/ \E spawned \in BOOLEAN : StartLightpanda(spawned)
  \/ \E a \in RetryCounts, found \in BOOLEAN, spawned \in BOOLEAN :
        ChromeLookupSettles(a, found, spawned)
  \/ \E a \in RetryCounts : ChromeWritesFile(a)
  \/ LightpandaWritesOutput
  \/ \E a \in RetryCounts : KillTimerFires(a)
  \/ \E a \in RetryCounts : GraceTimerFires(a)
  \/ \E a \in RetryCounts : ChromeExits(a)
  \/ \E a \in RetryCounts : ErrorEvent(a)
  \/ \E code \in {"0", "1", "null"} : LightpandaCloses(code)
  \/ \E a \in RetryCounts : ReadDelayElapses(a)
  \/ \E a \in RetryCounts, ok \in BOOLEAN : ReadSettles(a, ok)
  \/ \E a \in RetryCounts, ok \in BOOLEAN : UnlinkSettles(a, ok)
  \/ RetrySettles
  \/ Advance

RunSpec == RunInit /\ [][RunNext]_vars

(***************************************************************************)
(* Vocabulary of the properties.                                           *)
(***************************************************************************)
Has(seq, x) == \E i \in 1..Len(seq) : seq[i] = x

Count(seq, x) == Cardinality({i \in 1..Len(seq) : seq[i] = x})

\* the scrape call in slot c has settled
ScrapeDone(c) == frame[c].op = "scrape" /\ frame[c].pc = "done"

\* the direct fetch of the call answered with a PDF (header or magic bytes)
SniffedPdf(c) ==
  \/ Has(frame[c].seen, <<"directFetch", "pdfType">>)
  \/ Has(frame[c].seen, <<"directFetch", "pdfMagic">>)

\* attempts of method m counted since the call in slot c began
AttemptsDuring(c, m) == stats[m].attempts - frame[c].base[m].attempts

SuccessesDuring(c, m) == stats[m].successes - frame[c].base[m].successes

(***************************************************************************)
(* C1: scrape never throws or rejects.  Whatever the URL and however the   *)
(* stages end (a rejected tryPuppeteer promise included), the call settles *)
(* by returning a record with a method, a boolean success and, exactly     *)
(* when success is false, an error message.                                *)
(***************************************************************************)
C1_ScrapeNeverThrows ==
  \A c \in Calls :
    /\ returned[c].kind # "thrown"
    /\ ScrapeDone(c) =>
         /\ returned[c].kind = "returned"
         /\ returned[c].method # Undefined
         /\ returned[c].success \in BOOLEAN
         /\ returned[c].success <=> returned[c].error = Undefined

\* a stage threw and the call still returned a result
C1_Witness ==
  \E c \in Calls :
    /\ ScrapeDone(c)
    /\ Has(frame[c].seen, <<"puppeteer", "unavailable">>)
    /\ returned[c].kind = "returned"
    /\ returned[c].method = "error"

(***************************************************************************)
(* C2: cascade order.  Within a scrape call the puppeteer attempt counter  *)
(* is incremented only after the lightpanda counter, and that only after   *)
(* the direct-fetch counter; a direct fetch that fails (not a PDF) is      *)
(* followed by the lightpanda stage; and method 'failed' is returned only  *)
(* when all three attempt counters were incremented during the call.       *)
(***************************************************************************)
C2_CascadeOrder ==
  \A c \in Calls :
    frame[c].op = "scrape" =>
      LET a == frame[c].attempted
          s == frame[c].seen
      IN /\ \A i \in 1..Len(a) :
              a[i] = "puppeteer" =>
                \E j \in 1..(i - 1) :
                  /\ a[j] = "lightpanda"
                  /\ \E k \in 1..(j - 1) : a[k] = "directFetch"
         /\ \A i \in 1..Len(s) :
              /\ s[i] \in {<<"directFetch", "throw">>, <<"directFetch", "non2xx">>}
              /\ frame[c].pc # "ret_df"
              => i < Len(a) /\ a[i + 1] = "lightpanda"
         /\ ScrapeDone(c) /\ returned[c].method = "failed" =>
              \A m \in {"directFetch", "lightpanda", "puppeteer"} :
                AttemptsDuring(c, m) >= 1

\* a call whose direct fetch answered 404 and that ended as 'failed'
C2_Witness ==
  \E c \in Calls :
    /\ ScrapeDone(c)
    /\ Has(frame[c].seen, <<"directFetch", "non2xx">>)
    /\ returned[c].method = "failed"
    /\ frame[c].attempted = <<"directFetch", "lightpanda", "puppeteer">>

(***************************************************************************)
(* C3: an explicit .pdf URL whose PDF parse fails ends the call as a       *)
(* failure: the pdf stage is the only stage the call attempts.             *)
(***************************************************************************)
C3_ExplicitPdfStops ==
  \A c \in Calls :
    /\ frame[c].op = "scrape"
    /\ frame[c].url.endsPdf
    /\ frame[c].seen # <<>>
    /\ frame[c].seen[1][1] = "pdf"
    /\ frame[c].seen[1][2] # "parsed"
    /\ frame[c].pc # "ret_pdf"
    => /\ frame[c].attempted = <<"pdf">>
       /\ \A m \in {"directFetch", "lightpanda", "puppeteer"} :
            AttemptsDuring(c, m) = 0
       /\ ScrapeDone(c) /\ ~returned[c].success

(***************************************************************************)
(* C4: a URL ending in .pdf whose download answers non-2xx gives a result  *)
(* with method 'pdf' and success false.                                    *)
(***************************************************************************)
C4_Pdf404IsPdfFailure ==
  \A c \in Calls :
    /\ ScrapeDone(c)
    /\ frame[c].url.endsPdf
    /\ frame[c].seen # <<>>
    /\ frame[c].seen[1] = <<"pdf", "non2xx">>
    => /\ returned[c].method = "pdf"
       /\ ~returned[c].success

(***************************************************************************)
(* C5: every result of scrape carries a method of the declared set, also   *)
(* when a PDF sniffed by the direct fetch fails to parse.                  *)
(***************************************************************************)
\* the method values a result may carry
DeclaredMethods ==
  {"direct-fetch", "lightpanda", "puppeteer", "pdf", "failed", "error"}

C5_MethodDeclared ==
  \A c \in Calls :
    ScrapeDone(c) => returned[c].method \in DeclaredMethods

(***************************************************************************)
(* C6: when the cascade reaches the puppeteer stage and the stage fails    *)
(* (puppeteer not installed included), the result has method 'failed' and  *)
(* its error is the last error observed.                                   *)
(***************************************************************************)
C6_FullEngineFailureIsFailed ==
  \A c \in Calls :
    /\ ScrapeDone(c)
    /\ Has(frame[c].attempted, "puppeteer")
    /\ ~returned[c].success
    => /\ returned[c].method = "failed"
       /\ returned[c].error = frame[c].lastError

(***************************************************************************)
(* C7: the counters.  Every step leaves each counter unchanged or adds one *)
(* to it.  An attempt counter is incremented exactly in the step in which  *)
(* a call enters that stage, before any await or availability check of the *)
(* stage, so once per execution.  A success counter is incremented only in *)
(* the step in which that stage ends with a success (for direct fetch: a   *)
(* 2xx answer that is not a PDF and needs no rendering), so at most once   *)
(* per execution.                                                          *)
(***************************************************************************)
StagePcs(m) ==
  CASE m = "pdf"         -> {"pdf_fetch", "pdf_body", "pdf_parse"}
    [] m = "directFetch" -> {"df_fetch", "df_body"}
    [] m = "lightpanda"  -> {"lp_running"}
    [] OTHER             -> {"pp_launch", "pp_newPage", "pp_goto", "pp_eval", "pp_close"}

ReturnPc(m) ==
  CASE m = "pdf"         -> "ret_pdf"
    [] m = "directFetch" -> "ret_df"
    [] m = "lightpanda"  -> "ret_lp"
    [] OTHER             -> "ret_pp"

\* the call in slot c enters stage m in this step
Enters(c, m) ==
  frame'[c].attempted =
    Append(IF Free(c) THEN <<>> ELSE frame[c].attempted, m)

\* stage m of the call in slot c ends with a definitive success in this step
Succeeds(c, m) ==
  /\ frame[c].pc \in StagePcs(m)
  /\ frame'[c].pc = ReturnPc(m)
  /\ frame'[c].result.success
  /\ ~frame'[c].result.threw
  /\ m = "directFetch" =>
       /\ ~frame'[c].result.needsBrowser
       /\ ~frame'[c].result.isPdf
       /\ frame[c].pc = "df_body"

C7_CounterStep ==
  \A m \in Methods :
    /\ stats'[m].attempts \in {stats[m].attempts, stats[m].attempts + 1}
    /\ stats'[m].successes \in {stats[m].successes, stats[m].successes + 1}
    /\ stats'[m].attempts = stats[m].attempts + 1 <=> \E c \in Calls : Enters(c, m)
    /\ stats'[m].successes = stats[m].successes + 1 => \E c \in Calls : Succeeds(c, m)

C7_CounterState ==
  \A c \in Calls : \A m \in Methods :
    /\ AttemptsDuring(c, m) = Count(frame[c].attempted, m)
    /\ SuccessesDuring(c, m) >= 0
    /\ SuccessesDuring(c, m) <= AttemptsDuring(c, m)
    /\ frame[c].pc \in StagePcs(m) => SuccessesDuring(c, m) < AttemptsDuring(c, m)

C7_Counters == []C7_CounterState /\ [][C7_CounterStep]_vars

\* the lightpanda attempt was counted although the binary check failed, and
\* an earlier call on the instance had already succeeded by direct fetch
C7_Witness ==
  \E c \in Calls :
    /\ frame[c].pc = "ret_lp"
    /\ lightpandaPath # "file"
    /\ AttemptsDuring(c, "lightpanda") = 1
    /\ stats["directFetch"].successes = 1
    /\ stats["directFetch"].attempts = 2

(***************************************************************************)
(* C8: once the direct fetch of a scrape call has answered with a PDF      *)
(* (content type or magic bytes), the call enters neither the lightpanda   *)
(* nor the puppeteer stage, whether the PDF parse succeeds or fails.       *)
(***************************************************************************)
C8_SniffedPdfNeverRenders ==
  \A c \in Calls :
    frame[c].op = "scrape" /\ SniffedPdf(c) =>
      /\ ~Has(frame[c].attempted, "lightpanda")
      /\ ~Has(frame[c].attempted, "puppeteer")
      /\ AttemptsDuring(c, "lightpanda") = 0
      /\ AttemptsDuring(c, "puppeteer") = 0
      /\ frame[c].pc \in {"ret_df", "pdf_fetch", "pdf_body", "pdf_parse",
                          "ret_pdf", "done"}

\* the sniffed PDF failed to parse and the call has returned
C8_Witness ==
  \E c \in Calls :
    /\ ScrapeDone(c)
    /\ Has(frame[c].seen, <<"directFetch", "pdfMagic">>)
    /\ Has(frame[c].seen, <<"pdf", "invalid">>)
    /\ ~returned[c].success

(***************************************************************************)
(* C9: first success wins.  A scrape of a non-PDF URL whose direct fetch   *)
(* answers 2xx with markup the classifier accepts returns success true,    *)
(* method 'direct-fetch' and content, and leaves the lightpanda, puppeteer *)
(* and pdf counters as they were; markup fetched from an allowlisted URL   *)
(* is always accepted.                                                     *)
(***************************************************************************)
C9_FirstSuccessWins ==
  \A c \in Calls :
    /\ frame[c].op = "scrape" /\ frame[c].url.simpleSite =>
         ~Has(frame[c].seen, <<"directFetch", "needsBrowser">>)
    /\ /\ ScrapeDone(c)
       /\ ~isPdfUrl(frame[c].url)
       /\ Has(frame[c].seen, <<"directFetch", "static">>)
       => /\ returned[c].success
          /\ returned[c].method = "direct-fetch"
          /\ returned[c].content # Undefined
          /\ \A m \in {"lightpanda", "puppeteer", "pdf"} :
               stats[m] = frame[c].base[m]

\* https://example.com scraped by direct fetch on an instance whose earlier
\* call had gone through the whole cascade
C9_Witness ==
  \E c \in Calls :
    /\ ScrapeDone(c)
    /\ frame[c].url = ExampleCom
    /\ returned[c].method = "direct-fetch"
    /\ returned[c].success
    /\ stats["puppeteer"].attempts = 1

(***************************************************************************)
(* C10: markup that needs rendering and no lightpanda binary: the cascade  *)
(* reaches the puppeteer stage, and if that stage fails too the result has *)
(* method 'failed'.                                                        *)
(***************************************************************************)
C10_RenderingWithoutLightpanda ==
  \A c \in Calls :
    /\ ScrapeDone(c)
    /\ Has(frame[c].seen, <<"directFetch", "needsBrowser">>)
    /\ lightpandaPath \in {"null", "missing"}
    => /\ AttemptsDuring(c, "puppeteer") = 1
       /\ ~returned[c].success => returned[c].method = "failed"

(***************************************************************************)
(* C11: within one scrape call the stages run one after another: at any    *)
(* time at most one stage of the call has a request, process or browser    *)
(* operation in flight, and it is the stage entered last; a stage is       *)
(* entered only when nothing of the call is in flight and the stage before *)
(* it has returned a failure or has declined (needsBrowser).               *)
(***************************************************************************)
C11_OneInFlight ==
  \A c \in Calls :
    /\ Cardinality(frame[c].inFlight) <= 1
    /\ frame[c].inFlight # {} =>
         /\ frame[c].attempted # <<>>
         /\ frame[c].inFlight = {frame[c].attempted[Len(frame[c].attempted)]}
         /\ \E m \in Methods : frame[c].pc \in StagePcs(m)

C11_StartsAfterReturn ==
  \A c \in Calls : \A m \in Methods :
    Enters(c, m) /\ ~Free(c) /\ frame[c].op = "scrape"
    => /\ frame[c].inFlight = {}
       /\ frame[c].pc \in {"ret_pdf", "ret_df", "ret_lp"}
       /\ ~frame[c].result.success \/ frame[c].result.needsBrowser

C12_OneBrowser ==
  /\ Cardinality(alive) <= 1
  /\ alive # {} => alive = {browser}

(***************************************************************************)
(* Vocabulary of the process runs.                                         *)
(***************************************************************************)
ShotKinds == {"screenshot", "quickshot"}

\* a kill() call is made for invocation a in this step
Signals(a) ==
  /\ Len(atts'[a].signals) = Len(atts[a].signals) + 1
  /\ atts[a].spawnAt >= 0

SentNow(a) == atts'[a].signals[Len(atts'[a].signals)]

\* the instant the process timer of invocation a expires
Expiry(a) == atts[a].spawnAt + atts[a].timeout

\* the exit of the process had been observed by instant t
ExitedBy(a, t) == atts[a].exitAt # -1 /\ atts[a].exitAt <= t

(***************************************************************************)
(* C13: in screenshot capture SIGTERM is sent when the process timer       *)
(* expires and the exit has not been observed; SIGKILL is sent only after  *)
(* a SIGTERM, exactly 1000 ms after it, and only if the exit has still not *)
(* been observed; no signal is sent once the exit has been observed.       *)
(***************************************************************************)
C13_SignalsSent ==
  runKind \in ShotKinds =>
    \A a \in RetryCounts :
      LET at == atts[a]
          T  == Expiry(a)
      IN at.spawnAt >= 0 =>
           /\ at.signals \in { <<>>, << <<"SIGTERM", T>> >>,
                               << <<"SIGTERM", T>>, <<"SIGKILL", T + 1000>> >> }
           /\ at.signals # <<>> => ~ExitedBy(a, T - 1)
           /\ Len(at.signals) = 2 => ~ExitedBy(a, T + 1000 - 1)
           /\ clock > T /\ at.proc # "spawnFailed" /\ ~ExitedBy(a, T)
                => at.signals # <<>>

C13_SignalStep ==
  runKind \in ShotKinds =>
    \A a \in RetryCounts :
      Signals(a) =>
        /\ ~atts[a].processExited
        /\ atts[a].exitAt = -1
        /\ SentNow(a)[1] = "SIGTERM" =>
             atts[a].signals = <<>> /\ clock = Expiry(a)
        /\ SentNow(a)[1] = "SIGKILL" =>
             atts[a].signals = << <<"SIGTERM", clock - 1000>> >>

C13_Escalation == []C13_SignalsSent /\ [][C13_SignalStep]_vars

\* a quickshot process got SIGTERM at 8000 ms, was still there at 9000 ms and
\* got SIGKILL, and its exit was observed after that
C13_Witness ==
  /\ runKind = "quickshot"
  /\ atts[0].signals = << <<"SIGTERM", 8000>>, <<"SIGKILL", 9000>> >>
  /\ atts[0].processExited

C15_LightpandaEscalates ==
  runKind = "lightpanda" /\ atts[0].proc # "spawnFailed" =>
    LET T == Expiry(0)
    IN /\ T = DefaultTimeout + 1000
       /\ clock > T /\ ~ExitedBy(0, T)
            => Has(atts[0].signals, <<"SIGTERM", T>>)
       /\ clock > T + GraceMs /\ ~ExitedBy(0, T + GraceMs)
            => Has(atts[0].signals, <<"SIGKILL", T + GraceMs>>)

(***************************************************************************)
(* C16: running an external process never rejects.  The promise of the     *)
(* lightpanda stage and of both screenshot functions is never rejected;    *)
(* it is settled once the handling of the process exit is over, however    *)
(* the process ended, and the value it was settled with never changes; a   *)
(* spawn error settles it with a failure value: success false for          *)
(* lightpanda, no image for the screenshot functions.                      *)
(***************************************************************************)
C16_Settled ==
  \A a \in RetryCounts :
    LET at == atts[a]
    IN /\ at.value # "rejected"
       /\ at.value \in (IF runKind = "lightpanda"
                          THEN {"pending", "success", "failure"}
                          ELSE {"pending", "image", "null"})
       /\ at.proc = "exited" /\ at.pc = "finished" => at.value # "pending"
       /\ runKind = "lightpanda" /\ at.proc = "exited" => at.value # "pending"
       /\ at.errorSeen =>
            at.value = (IF runKind = "lightpanda" THEN "failure" ELSE "null")

C16_SettledOnce ==
  \A a \in RetryCounts :
    atts[a].value # "pending" => atts'[a].value = atts[a].value

C17_TempFileDeleted ==
  runKind \in ShotKinds =>
    \A a \in RetryCounts :
      atts[a].value # "pending" => ~atts[a].file \/ atts[a].unlinkTried

(***************************************************************************)
(* C18: a quickshot call makes at most two capture attempts.  The first    *)
(* has virtual-time budget 5000 ms and process timeout 8000 ms.  A second  *)
(* one is made only when the first gave no readable image, and is made     *)
(* when the first found no browser or could not read its file; it has      *)
(* budget 8000 ms and timeout 12000 ms.  After a second failure the call   *)
(* returns no image (success false) and does not throw.                    *)
(***************************************************************************)
C18_TwoAttempts ==
  runKind = "quickshot" =>
    /\ Len(invoked) \in {1, 2}
    /\ invoked[1] = [retryCount |-> 0, budget |-> 5000, timeout |-> 8000]
    /\ Len(invoked) = 2 =>
         /\ invoked[2] = [retryCount |-> 1, budget |-> 8000, timeout |-> 12000]
         /\ ~atts[0].unlinkTried
         /\ atts[0].pc \in {"awaitRetry", "finished"}
    /\ \A a \in RetryCounts :
         atts[a].spawnAt >= 0 =>
           /\ atts[a].timeout = invoked[a + 1].timeout
           /\ atts[a].killAt \in {-1, atts[a].spawnAt + invoked[a + 1].timeout}
    /\ atts[0].pc = "finished" /\ ~atts[0].unlinkTried =>
         /\ Len(invoked) = 2
         /\ atts[1].value # "pending"
    /\ atts[0].value # "pending" /\ Len(invoked) = 2 /\ atts[1].value = "null" =>
         ShotReturn("quickshot", atts[0].value) =
           [threw |-> FALSE, success |-> FALSE, method |-> "quickshot"]
    /\ atts[0].value # "rejected"

\* both attempts timed out: the second one was spawned with the 12000 ms
\* timeout, got SIGTERM when it expired, and the call returned no image
C18_Witness ==
  /\ runKind = "quickshot"
  /\ Len(invoked) = 2
  /\ atts[0].signals = << <<"SIGTERM", 8000>> >>
  /\ atts[1].spawnAt >= 8000
  /\ atts[1].signals = << <<"SIGTERM", atts[1].spawnAt + 12000>> >>
  /\ atts[0].pc = "finished"
  /\ atts[0].value = "null"

(***************************************************************************)
(* C19: the lightpanda stage succeeds exactly when the process exits with  *)
(* code 0 and non-empty stdout; scrape then returns method 'lightpanda'    *)
(* and does not attempt puppeteer.  On every other outcome of the stage    *)
(* (non-zero or null exit code, empty output, spawn error, missing or      *)
(* non-file binary) puppeteer is the stage attempted next.                 *)
(***************************************************************************)
LightpandaOutcomes ==
  {"code0+output", "code0+empty", "nonzero", "killed", "spawnError",
   "null", "missing", "notFile"}

HostMatches(raw, site) == \E i \in 1..Len(raw.host) : raw.host[i] = site

C20_AllowlistOverrides ==
  /\ output # <<>>
  /\ \E site \in {"example.com", "httpbin.org", "wikipedia.org", "github.io",
                  "netlify.app", "vercel.app"} : HostMatches(input.url, site)
  => output = <<FALSE>>

\* a Cloudflare challenge page with a Next.js shell, served from
\* twitter.com.example.com, is classified as static
C20_Witness ==
  /\ output = <<FALSE>>
  /\ input.url.host = <<"twitter.com", ".", "example.com">>
  /\ input.html.protection # {}
  /\ input.html.spa # {}
  /\ input.html.textLen < 200

(***************************************************************************)
(* C21: for a URL in which no allowlisted site occurs,                     *)
(* detectBrowserRequirement returns true if and only if the markup has     *)
(* anti-bot markers, or the URL matches a known interactive-platform       *)
(* domain, or the visible text is under 200 characters and SPA markers are *)
(* present.  Little text without SPA markers, and SPA markers with 200 or  *)
(* more characters of text, give false when nothing else fires.            *)
(***************************************************************************)
OnAllowlist(raw) ==
  \E site \in {"example.com", "httpbin.org", "wikipedia.org", "github.io",
               "netlify.app", "vercel.app"} : includes(raw, site)

KnownPlatform(raw) ==
  \E i \in 1..Len(Text(raw)) :
    Lower(Text(raw)[i]) \in {"instagram.com", "twitter.com", "facebook.com",
                             "linkedin.com", "maps.google", "gmail.com",
                             "youtube.com"}

C22_SizeIsLength ==
  \A c \in Calls :
    ScrapeDone(c) /\ returned[c].size # -1 =>
      returned[c].size = IF returned[c].html THEN returned[c].htmlLen
                         ELSE returned[c].contentLen

(***************************************************************************)
(* C23: every result scrape returns, the last-resort error result          *)
(* included, carries a performance record naming the method, and a stats   *)
(* snapshot.                                                               *)
(***************************************************************************)
C23_PerformanceAndStats ==
  \A c \in Calls :
    ScrapeDone(c) /\ returned[c].kind = "returned" =>
      /\ returned[c].perfMethod = returned[c].method
      /\ returned[c].hasStats

(***************************************************************************)
(* C24: getStats exposes the counters as they are and derives each         *)
(* method's rate from them: "0%" when the method has no attempts, and      *)
(* otherwise successes/attempts as a percentage written with one decimal,  *)
(* the nearest tenth of a percent.  3 attempts and 1 success give "33.3%", *)
(* and every rate lies between 0% and 100%.                                *)
(***************************************************************************)
Percent(tenths) ==
  ToString(tenths \div 10) \o "." \o ToString(tenths % 10) \o "%"

C24_SuccessRates ==
  output # <<>> =>
    \A m \in Methods :
      LET a == stats[m].attempts
          k == stats[m].successes
          rate == output[1].successRates[m]
      IN /\ output[1][m] = stats[m]
         /\ a = 0 => rate = "0%"
         /\ a > 0 =>
              \E tenths \in 0..1000 :
                /\ rate = Percent(tenths)
                /\ 2 * (tenths * a - 1000 * k) <= a
                /\ 2 * (1000 * k - tenths * a) <= a
         /\ a = 3 /\ k = 1 => rate = "33.3%"

\* one success in three direct fetches, none of the lightpanda stage
C24_Witness ==
  /\ output # <<>>
  /\ stats.directFetch = [attempts |-> 3, successes |-> 1]
  /\ stats.lightpanda.attempts = 0
  /\ output[1].successRates.directFetch = "33.3%"
  /\ output[1].successRates.lightpanda = "0%"

AssignsKnownGlobal(html) ==
  /\ html.assignment.name \in { <<"NEXT_DATA__">>, <<"INITIAL_STATE__">>,
                                <<"INITIAL_DATA__">> }
  /\ html.assignment.semicolon

C26_WindowState ==
  output # <<>> =>
    LET windowData == output[1].windowData
        blob == input.html.assignment.blob
    IN /\ AssignsKnownGlobal(input.html) =>
            /\ blob = "notJson" => windowData = "Found but unparseable"
            /\ blob # "notJson" => windowData = "object"
       /\ windowData = "null" => ~AssignsKnownGlobal(input.html)

(***************************************************************************)
(* C27: the lightpanda stage of a scrape call checks and spawns the binary *)
(* path of the call's config, the call's options laid over the instance's: *)
(* a path given with the call is the one handed to statSync and to spawn.  *)
(***************************************************************************)
C27_StageReadsConfig ==
  \A c \in Calls :
    LET f == frame[c]
    IN f.op = "scrape" /\ Has(f.attempted, "lightpanda") =>
         /\ config(f.options).lightpandaPath # "null" =>
              f.statPath = config(f.options).lightpandaPath
         /\ f.spawnPath \in {Undefined, config(f.options).lightpandaPath}

(***************************************************************************)
(* C28: askAI turns to the providers in the order OpenRouter, OpenAI, BNCA *)
(* backend, local.  It calls no provider when the scrape failed, calls     *)
(* only configured providers, each one only after every configured         *)
(* provider of higher priority was called and failed, and the processing   *)
(* field of a successful response names the provider called last.          *)
(***************************************************************************)
Rank(provider) ==
  CASE provider = "openrouter" -> 1
    [] provider = "openai"     -> 2
    [] provider = "backend"    -> 3
    [] OTHER                   -> 4

HasKey(provider) ==
  \/ provider = "openrouter" /\ input.openRouterKey
  \/ provider = "openai" /\ input.openAIKey
  \/ provider = "backend" /\ input.apiKey
  \/ provider = "local"

ProviderCalls == SelectSeq(output, LAMBDA e : e.kind = "call")

AskResponded == output # <<>> /\ output[Len(output)].kind = "response"

C28_ProviderPriority ==
  output # <<>> =>
    LET calls == ProviderCalls
        last == output[Len(output)]
    IN /\ ~output[1].success => calls = <<>>
       /\ \A i \in 1..Len(calls) :
            /\ HasKey(calls[i].provider)
            /\ \A p \in {"openrouter", "openai", "backend", "local"} :
                 HasKey(p) /\ Rank(p) < Rank(calls[i].provider) =>
                   \E j \in 1..(i - 1) : calls[j].provider = p
            /\ \A j \in 1..(i - 1) : Rank(calls[j].provider) < Rank(calls[i].provider)
       /\ AskResponded /\ last.success =>
            /\ calls # <<>>
            /\ last.provider = calls[Len(calls)].provider

\* with all three keys set OpenRouter failed and OpenAI answered
C28_Witness ==
  /\ AskResponded
  /\ input.openRouterKey /\ input.openAIKey /\ input.apiKey
  /\ Len(ProviderCalls) = 2
  /\ ProviderCalls[1].provider = "openrouter"
  /\ output[Len(output)].success
  /\ output[Len(output)].provider = "openai"

(***************************************************************************)
(* C29: a successful askAI response carries scrapeTime, and it is the      *)
(* total time of the scrape, the performance.totalTime of the scrape       *)
(* result.                                                                 *)
(***************************************************************************)
C29_ScrapeTime ==
  AskResponded /\ output[Len(output)].success =>
    output[Len(output)].scrapeTime = output[1].scrapeTime

(***************************************************************************)
(* C30: when smartScrape completes it has called cleanup on its scraper,   *)
(* whatever the scrape gave: a success, a failure or an exception.  When   *)
(* the last cleanup it awaited closed the browser, no browser the call     *)
(* launched is running and the scraper holds none.                         *)
(***************************************************************************)
SmartCompleted == output # <<>> /\ output[1].pc \in {"returned", "thrown"}

C31_SuccessesWithinAttempts ==
  \A m \in Methods : stats[m].successes <= stats[m].attempts

\* a health check and a scrape overlap: the health check's direct fetch has
\* succeeded and its Lightpanda runs while the scrape's direct fetch is out
C31_Witness ==
  /\ frame["c1"].op = "healthCheck" /\ frame["c1"].pc = "lp_running"
  /\ frame["c2"].op = "scrape" /\ frame["c2"].pc = "df_fetch"
  /\ stats.directFetch = [attempts |-> 2, successes |-> 1]

(***************************************************************************)
(* C32: the attempt and success numbers read from the stats of a result    *)
(* scrape has returned are the numbers of the moment it returned, whatever *)
(* calls run on the instance afterwards.                                   *)
(***************************************************************************)
C32_SnapshotFrozen ==
  \A c \in Slots :
    frame[c].op = "scrape" /\ frame[c].pc = "done" /\ returned[c].hasStats =>
      resultStats(c) = frame[c].atReturn

(***************************************************************************)
(* C33: in every result scrape returns, success is true exactly when       *)
(* method is direct-fetch, lightpanda, puppeteer or pdf; a successful      *)
(* result carries content and a failed one an error message.               *)
(***************************************************************************)
C33_SuccessMeansMethod ==
  \A c \in Calls :
    ScrapeDone(c) /\ returned[c].kind = "returned" =>
      /\ returned[c].success <=>
           returned[c].method \in {"direct-fetch", "lightpanda", "puppeteer", "pdf"}
      /\ returned[c].success => returned[c].content # Undefined
      /\ ~returned[c].success => returned[c].error # Undefined

\* every stage failed: method failed with the full engine's error; and a
\* call before it on the instance succeeded by direct fetch
C33_Witness ==
  \E c \in Calls :
    /\ ScrapeDone(c)
    /\ returned[c].method = "failed"
    /\ ~returned[c].success
    /\ returned[c].error # Undefined
    /\ Has(frame[c].attempted, "puppeteer")
    /\ stats.directFetch.successes = 1

(***************************************************************************)
(* C34: every page the puppeteer stage opens is closed before the stage    *)
(* returns, on success and on failure: whenever no call is running on the  *)
(* instance, no browser has a page open.                                   *)
(***************************************************************************)
C34_PagesClosed ==
  (\A c \in Calls : Free(c)) => \A b \in BrowserIds : openPages[b] = 0

(***************************************************************************)
(* C36: when direct fetch reports that rendering is required, its          *)
(* browserIndicators list is not empty and names every cause of the        *)
(* verdict: a protection marker, a known platform's domain, SPA markers    *)
(* with little text.                                                       *)
(***************************************************************************)
C36_IndicatorsExplain ==
  output # <<>> /\ output[1].needsBrowser =>
    LET h == input.html
        named == output[1].browserIndicators
    IN /\ named # {}
       /\ h.protection # {} =>
            named \cap {"Cloudflare challenge detected",
                        "Cloudflare protection detected",
                        "JavaScript required message detected"} # {}
       /\ h.spa # {} /\ h.textLen < 200 =>
            named \cap {"React root div detected", "Next.js data detected"} # {}

(***************************************************************************)
(* C35: the timeout of a direct fetch stays armed until the body of the    *)
(* response has been read: while tryDirectFetch waits for the body, the    *)
(* timer that aborts the request has not been cleared.                     *)
(***************************************************************************)
C35_TimeoutCoversBody ==
  \A c \in Calls :
    frame[c].pc = "df_body" => ~frame[c].timeoutCleared

(***************************************************************************)
(* C37: the installer leaves no partial binary behind.  When a run has     *)
(* ended, the binary path holds the complete binary or nothing, so that a  *)
(* run after a failed download finds no file and downloads again.          *)
(***************************************************************************)
C37_NoPartialBinary ==
  output[1].pc = "ended" => output[1].file \in {"absent", "complete"}

(***************************************************************************)
(* C38: the installer never fails the package installation.  Every run     *)
(* ends with exit status 0, whether the platform is unsupported, the       *)
(* download is refused, times out or breaks, or anything else goes wrong;  *)
(* and a run that finds a file at the binary path makes no request.        *)
(***************************************************************************)
C38_NeverFailsInstall ==
  /\ output[1].code \in {-1, 0}
  /\ output[1].pc = "ended" => output[1].code = 0
  /\ output[1].atStart # "absent" => output[1].requests = 0
  /\ detectPlatform(input.platform) = "null" => output[1].requests = 0

\* a second run on a machine where the first one installed the binary
C38_Witness ==
  /\ output[1].run = 2
  /\ output[1].pc = "ended"
  /\ output[1].atStart = "complete"
  /\ output[1].how = "returned"
  /\ output[1].requests = 0

====
